---- MODULE Spec2Model ----
(***************************************************************************)
(* Call-graph construction of the NestJS dashboard extension:              *)
(* CallGraphParser (graph builder), DependencyTracer (declaration analyzer *)
(* and symbol resolver), GraphTraversal (graph algorithms), the demo       *)
(* enrichment, level grouping and tree projection of the views,            *)
(* SequenceFlowParser (sequence diagrams) and the file watcher.            *)
(*                                                                         *)
(* Names are modelled by their text split in three parts  pre ++ stem ++   *)
(* suf ("UsersService" = "" ++ "Users" ++ "Service", "Repository<User>" =  *)
(* "Repository<" ++ "User" ++ ">"), so that the suffix tests, the suffix    *)
(* stripping and the quote stripping of the code are computed on the text. *)
(* Letter case is abstracted: no two names of the universe differ only in  *)
(* case, a file base name records whether it is spelled in lower case.     *)
(***************************************************************************)
EXTENDS Integers, Sequences, FiniteSets, TLC

\* ------------------------------------------------------------------ bounds
MaxDepth == 3        \* budgets 0..MaxDepth are tried besides the default
MaxEndpoints == 2    \* length of the endpoint list of one build
MaxFaultAfter == 2   \* an injected exception is raised after 0..MaxFaultAfter dependencies
MaxBuilds == 2       \* builds run one after the other on one builder instance

DefaultMaxDepth == 5

\* ------------------------------------------------------------------- names
N(pre, stem, suf) == [pre |-> pre, stem |-> stem, suf |-> suf]
NoName == N("", "", "")

\* typeName.endsWith(s) for s in Service, Repository, Guard, Pipe, Interceptor
EndsWith(n, s) == n.suf = s
\* typeName.startsWith("Repository<")
StartsWithRepositoryGeneric(n) == n.pre = "Repository<"
\* name.replace(/Service$/, ""), name.replace(/Entity$/, ""), ...
StripSuffix(n, s) == IF n.suf = s THEN [n EXCEPT !.suf = ""] ELSE n
\* text.replace(/['"]/g, "")
StripQuotes(n) == IF n.pre = "'" THEN [n EXCEPT !.pre = "", !.suf = ""] ELSE n
\* `Repository<${entityType}>`
RepositoryOf(e) == N("Repository<", e.stem, e.suf \o ">")
\* controller.replace("Controller", "")
StripController(n) == StripSuffix(n, "Controller")

NoFile == 0          \* the empty file path ""
NoLine == 0

Min(S) == CHOOSE x \in S : \A y \in S : x <= y

\* ------------------------------------------------------- the source files
Param(pname, type, dec, arg) ==
    [pname |-> pname, type |-> type, dec |-> dec, arg |-> arg]
Rel(prop, kind, arg) == [prop |-> prop, kind |-> kind, arg |-> arg]
Call(target, method) == [target |-> target, method |-> method]
Method(mname, calls) == [mname |-> mname, calls |-> calls]
Class(name, ctor, rels, methods) ==
    [name |-> name, ctor |-> ctor, rels |-> rels, methods |-> methods]
Base(name, ext, cased) == [name |-> name, ext |-> ext, cased |-> cased]
File(base, root, classes) == [base |-> base, root |-> root, classes |-> classes]

AController == N("", "A", "Controller")
BController == N("", "B", "Controller")
UsersController == N("", "Users", "Controller")
HealthController == N("", "Health", "Controller")
AService == N("", "A", "Service")
BService == N("", "B", "Service")
UsersService == N("", "Users", "Service")
GhostService == N("", "Ghost", "Service")
TokenService == N("", "Token", "Service")
MissingService == N("", "Missing", "Service")   \* declared in no file
AuthGuard == N("", "Auth", "Guard")
User == N("", "User", "")
Post == N("", "Post", "")
Profile == N("", "Profile", "")

FileTable == <<
  \* 1  src/a/a.controller.ts
  File(Base(N("", "A", ""), "controller", FALSE), TRUE, <<
    Class(AController,
      << Param("ghostService", GhostService, "", NoName),
         Param("tokenService", TokenService, "", NoName),
         Param("aService", AService, "", NoName),
         Param("authGuard", AuthGuard, "Inject", N("'", "AUTH", "'")),
         Param("missingService", MissingService, "", NoName),
         Param("logger", N("", "Logger", ""), "", NoName) >>,
      << >>,
      << Method("h1", << Call("missingService", "ping"), Call("missingService", "pong"),
                         Call("aService", "run"), Call("this", "log") >>),
         Method("h2", << >>) >>) >>),
  \* 2  src/a/a.service.ts
  File(Base(N("", "A", ""), "service", FALSE), TRUE, <<
    Class(AService, << Param("bService", BService, "", NoName) >>, << >>, << >>) >>),
  \* 3  src/b/b.controller.ts
  File(Base(N("", "B", ""), "controller", FALSE), TRUE, <<
    Class(BController,
      << Param("bService", BService, "", NoName),
         Param("aService", AService, "", NoName) >>,
      << >>,
      << Method("run", << >>) >>) >>),
  \* 4  src/b/b.service.ts
  File(Base(N("", "B", ""), "service", FALSE), TRUE, <<
    Class(BService,
      << Param("aService", AService, "", NoName),
         Param("userRepository", RepositoryOf(User), "InjectRepository", User) >>,
      << >>, << >>) >>),
  \* 5  src/health/health.controller.ts
  File(Base(N("", "Health", ""), "controller", FALSE), TRUE, <<
    Class(HealthController,
      << Param("config", N("", "ConfigHelper", ""), "", NoName) >>,
      << >>,
      << Method("check", << >>) >>) >>),
  \* 6  src/users/post.entity.ts
  File(Base(Post, "entity", FALSE), TRUE, <<
    Class(Post, << >>, << Rel("author", "ManyToOne", N("'", "User", "'")) >>, << >>) >>),
  \* 7  src/users/user.entity.ts
  File(Base(User, "entity", FALSE), TRUE, <<
    Class(User, << >>,
      << Rel("posts", "OneToMany", N("'", "Post", "'")),
         Rel("profile", "OneToOne", N("() => ", "Profile", "")) >>,
      << >>) >>),
  \* 8  src/users/users.controller.ts
  File(Base(N("", "Users", ""), "controller", FALSE), TRUE, <<
    Class(UsersController,
      << Param("usersService", UsersService, "", NoName) >>,
      << >>,
      << Method("list", << Call("this", "format") >>) >>) >>),
  \* 9  src/users/users.service.ts
  File(Base(N("", "Users", ""), "service", FALSE), TRUE, <<
    Class(UsersService,
      << Param("usersRepository", RepositoryOf(User), "InjectRepository", User) >>,
      << >>, << >>) >>),
  \* 10 libs/auth/token.service.ts, outside the configured root folder
  File(Base(N("", "Token", ""), "service", FALSE), FALSE, <<
    Class(TokenService, << >>, << >>, << >>),
    Class(GhostService, << >>, << >>, << >>) >>)
>>

Files == DOMAIN FileTable
\* files that a source tree of the family may lack
Removable == {6, 7}
Trees == { Files \ absent : absent \in SUBSET Removable }

\* loadSourceFiles: every file under `${rootFolder}/**/*.ts`
LoadSourceFiles(disk) == { f \in disk : FileTable[f].root }


\* ----------------------------------------------- DependencyTracer: resolver
ClassNames(f) == { FileTable[f].classes[i].name : i \in DOMAIN FileTable[f].classes }

\* className === name || className === name.replace(/Service$/, "") ||
\* className?.toLowerCase() === name.toLowerCase()
ServiceClassMatches(cls, n) == cls = n \/ cls = StripSuffix(n, "Service")

HasServiceClass(f, n) == \E c \in ClassNames(f) : ServiceClassMatches(c, n)

\* fileName.includes(term + ".service.ts") || fileName.includes(term + ".ts")
\* for term in name, name without "Service" (all lower-cased)
ServiceFileNameMatches(f, n) ==
    LET b == FileTable[f].base
    IN  /\ b.ext \in {"service", ""}
        /\ b.name \in {n, StripSuffix(n, "Service")}

\* the six glob patterns of possiblePaths, matched against a file on disk
ServiceGlob(p, f, n) ==
    LET b == FileTable[f].base
    IN  CASE p = 1 -> b.ext = "service" /\ ~b.cased /\ b.name = n
          [] p = 2 -> b.ext = "service" /\ ~b.cased /\ b.name = StripSuffix(n, "Service")
          [] p = 3 -> b.ext = "" /\ b.cased /\ b.name = n
          [] p = 4 -> b.ext = "" /\ ~b.cased /\ b.name = n
          [] p = 5 -> b.ext = "" /\ ~b.cased /\ b.name = n
          [] p = 6 -> b.ext = "service" /\ ~b.cased /\ b.name = n
NumServicePatterns == 6

RECURSIVE FindServiceByPattern(_, _, _, _)
FindServiceByPattern(p, ld, disk, n) ==
    IF p > NumServicePatterns THEN [file |-> NoFile, loaded |-> ld]
    ELSE LET ld2 == ld \cup { f \in disk : ServiceGlob(p, f, n) }
             hit == { f \in ld2 : HasServiceClass(f, n) }
         IN  IF hit # {} THEN [file |-> Min(hit), loaded |-> ld2]
             ELSE FindServiceByPattern(p + 1, ld2, disk, n)

\* findServiceFile: loaded files first (file name and class must match), then
\* the globs, each of which adds files to the project before all loaded
\* files are scanned for the class
FindServiceFile(ld, disk, n) ==
    LET first == { f \in ld : ServiceFileNameMatches(f, n) /\ HasServiceClass(f, n) }
    IN  IF first # {} THEN [file |-> Min(first), loaded |-> ld]
        ELSE FindServiceByPattern(1, ld, disk, n)

\* the four glob patterns of findEntityFile / findRepositoryFile, matched
\* against the loaded files: getSourceFiles(pattern)
KindGlob(p, f, n, ext, suffix) ==
    LET b == FileTable[f].base
    IN  /\ n.pre = ""
        /\ CASE p = 1 -> b.ext = ext /\ ~b.cased /\ b.name = n
             [] p = 2 -> b.ext = ext /\ ~b.cased /\ b.name = StripSuffix(n, suffix)
             [] p = 3 -> b.ext = "" /\ b.cased /\ b.name = n
             [] p = 4 -> b.ext = "" /\ ~b.cased /\ b.name = n
NumKindPatterns == 4

RECURSIVE FindByKindPattern(_, _, _, _, _)
FindByKindPattern(p, ld, n, ext, suffix) ==
    IF p > NumKindPatterns THEN NoFile
    ELSE LET files == { f \in ld : KindGlob(p, f, n, ext, suffix) }
         IN  IF files # {} THEN Min(files)
             ELSE FindByKindPattern(p + 1, ld, n, ext, suffix)

FindEntityFile(ld, n) == FindByKindPattern(1, ld, n, "entity", "Entity")
FindRepositoryFile(ld, n) == FindByKindPattern(1, ld, n, "repository", "Repository")

\* --------------------------------------------- DependencyTracer: analyzer
Dep(name, type, token, pname) ==
    [serviceName |-> name, serviceType |-> type, injectionToken |-> token,
     parameterName |-> pname]

InferServiceType(n) ==
    IF EndsWith(n, "Service") THEN "service"
    ELSE IF EndsWith(n, "Repository") \/ StartsWithRepositoryGeneric(n) THEN "repository"
    ELSE IF EndsWith(n, "Guard") THEN "guard"
    ELSE IF EndsWith(n, "Pipe") THEN "pipe"
    ELSE IF EndsWith(n, "Interceptor") THEN "interceptor"
    ELSE "service"

\* an analysis that takes every decorator with an argument for @Inject
AnalyzeAnyDecoratedParameter(param) ==
    IF param.type = NoName THEN << >>
    ELSE IF param.dec # "" /\ param.arg # NoName
         THEN << Dep(param.type, InferServiceType(param.type),
                     StripQuotes(param.arg), param.pname) >>
    ELSE IF EndsWith(param.type, "Service") \/ EndsWith(param.type, "Repository")
         THEN << Dep(param.type, InferServiceType(param.type), NoName, param.pname) >>
    ELSE << >>

\* analyzeDependencyParameter: <<dep>> or << >> (null)
AnalyzeDependencyParameter(param) ==
    IF param.type = NoName THEN << >>
    ELSE IF param.dec = "Inject" /\ param.arg # NoName
         THEN << Dep(param.type, InferServiceType(param.type),
                     StripQuotes(param.arg), param.pname) >>
    ELSE IF EndsWith(param.type, "Service") \/ EndsWith(param.type, "Repository")
         THEN << Dep(param.type, InferServiceType(param.type), NoName, param.pname) >>
    ELSE << >>

RECURSIVE ConstructorDependenciesFrom(_, _)
\* for (const param of parameters): the dependencies that are not null
ConstructorDependenciesFrom(params, i) ==
    IF i > Len(params) THEN << >>
    ELSE AnalyzeDependencyParameter(params[i]) \o ConstructorDependenciesFrom(params, i + 1)

ExtractConstructorDependencies(cls) == ConstructorDependenciesFrom(cls.ctor, 1)

RepositoryBinding(param) ==
    IF param.dec = "InjectRepository" /\ param.arg # NoName
    THEN << Dep(RepositoryOf(param.arg), "repository", param.arg, param.pname) >>
    ELSE << >>

RECURSIVE RepositoryDependenciesFrom(_, _)
RepositoryDependenciesFrom(params, i) ==
    IF i > Len(params) THEN << >>
    ELSE RepositoryBinding(params[i]) \o RepositoryDependenciesFrom(params, i + 1)

ExtractRepositoryDependencies(cls) == RepositoryDependenciesFrom(cls.ctor, 1)

Relationship(rel) ==
    IF rel.kind \in {"OneToOne", "OneToMany", "ManyToOne", "ManyToMany"} /\ rel.arg # NoName
    THEN << [property |-> rel.prop, relationType |-> rel.kind,
             targetEntity |-> StripQuotes(rel.arg)] >>
    ELSE << >>

RECURSIVE EntityRelationshipsFrom(_, _)
EntityRelationshipsFrom(rels, i) ==
    IF i > Len(rels) THEN << >>
    ELSE Relationship(rels[i]) \o EntityRelationshipsFrom(rels, i + 1)

ExtractEntityRelationships(cls) == EntityRelationshipsFrom(cls.rels, 1)

\* extractMethodCalls keeps the calls `this.m()` and `identifier.m()`; the
\* method tables above list only calls of these two shapes
ExtractMethodCalls(method) == method.calls


\* ------------------------------------------------------ endpoints, budgets
Ep(method, path, controller, handler, file, line, inputDto, outputDto, guards, isPublic) ==
    [method |-> method, path |-> path, controller |-> controller,
     handlerName |-> handler, filePath |-> file, lineNumber |-> line,
     inputDto |-> inputDto, outputDto |-> outputDto,
     guards |-> guards, pipes |-> << >>, interceptors |-> << >>,
     isPublic |-> isPublic]

CreateUserDto == N("Create", "User", "Dto")
UserArray == N("", "User", "[]")

EndpointUniverse == {
    Ep("GET", "/a", AController, "h1", 1, 10, NoName, NoName, << AuthGuard >>, FALSE),
    Ep("POST", "/a", AController, "h2", 1, 20, CreateUserDto, NoName, << >>, FALSE),
    Ep("GET", "/b", BController, "run", 3, 8, NoName, NoName, << >>, TRUE),
    Ep("GET", "/health", HealthController, "check", 5, 5, NoName, NoName, << >>, TRUE),
    Ep("GET", "/users", UsersController, "list", 8, 12, NoName, UserArray, << >>, FALSE) }

Config(maxDepth, includeEntities, includeDecorators) ==
    [maxDepth |-> maxDepth, includeEntities |-> includeEntities,
     includeGuards |-> includeDecorators, includePipes |-> includeDecorators,
     includeInterceptors |-> includeDecorators]

\* the defaults of buildCallGraph
DefaultConfig == Config(DefaultMaxDepth, TRUE, TRUE)

Configs == { Config(d, e, g) : d \in (0..MaxDepth) \cup {DefaultMaxDepth},
                               e \in BOOLEAN, g \in BOOLEAN }

\* ------------------------------------------------------------ nodes, edges
NoPathPart == -1     \* an id without a file-path component
Id(k, n, f, h, l) == [k |-> k, n |-> n, f |-> f, h |-> h, l |-> l]
Node(id, name, type, file, line, demo) ==
    [id |-> id, name |-> name, type |-> type, filePath |-> file,
     lineNumber |-> line, isDemoData |-> demo]
Edge(from, to, type, method, demo) ==
    [from |-> from, to |-> to, type |-> type, method |-> method, isDemoData |-> demo]

\* nodeCache.has(id) ? nodeCache.get(id) : (nodeCache.set(id, node), node)
Cached(cache, node) ==
    IF \E m \in cache : m.id = node.id
    THEN [node |-> CHOOSE m \in cache : m.id = node.id, cache |-> cache]
    ELSE [node |-> node, cache |-> cache \cup {node}]

EndpointId(ep) ==
    Id("endpoint", ep.controller, ep.filePath, ep.handlerName, ep.lineNumber)

CreateEndpointNode(cache, ep) ==
    Cached(cache, Node(EndpointId(ep), N(ep.method, " ", ep.path), "endpoint",
                       ep.filePath, ep.lineNumber, "unset"))

GetServiceNodeId(serviceName, filePath) == Id("service", serviceName, filePath, "", NoLine)

CreateServiceNode(cache, dep, filePath, nodeType) ==
    Cached(cache, Node(GetServiceNodeId(dep.serviceName, filePath), dep.serviceName,
                       nodeType, filePath, 1, "unset"))

CreateRepositoryNode(cache, dep, filePath) ==
    Cached(cache, Node(Id("repository", dep.serviceName, filePath, "", NoLine),
                       dep.serviceName, "repository", filePath, 1, "unset"))

CreateEntityNode(cache, entityName, filePath) ==
    Cached(cache, Node(Id("entity", entityName, filePath, "", NoLine),
                       entityName, "entity", filePath, 1, "unset"))

\* createGuardNode, createPipeNode, createInterceptorNode
CreateDecoratorNode(cache, kind, name, filePath) ==
    Cached(cache, Node(Id(kind, name, filePath, "", NoLine), name, kind, filePath, 1, "unset"))

\* ----------------------------------------------------------- CallGraphParser
\* The builder state threaded through one build: the files loaded in the
\* ts-morph project, processedFiles and nodeCache; `expanded` records, in order,
\* the files whose class the build has looked up and analysed.
BState(loaded, processed, cache, expanded) ==
    [loaded |-> loaded, processed |-> processed, cache |-> cache, expanded |-> expanded]
Out(st, nodes, edges) == [st |-> st, nodes |-> nodes, edges |-> edges]

\* sourceFile.getClasses().find(cls => the name of cls is one of `accepted`):
\* <<class>> or << >>
RECURSIVE FindClassFrom(_, _, _)
FindClassFrom(classes, accepted, i) ==
    IF i > Len(classes) THEN << >>
    ELSE IF classes[i].name \in accepted THEN << classes[i] >>
    ELSE FindClassFrom(classes, accepted, i + 1)

\* a push of the node that leaves its edge out
PushWithoutEdge(acc, made, from, type, method) ==
    [acc EXCEPT !.st.cache = made.cache, !.nodes = Append(@, made.node)]

\* nodes.push(node); edges.push({from, to: node.id, type, method}) for a node
\* that a create...Node call made (or found in nodeCache)
Push(acc, made, from, type, method) ==
    [acc EXCEPT !.st.cache = made.cache,
                !.nodes = Append(@, made.node),
                !.edges = Append(@, Edge(from, made.node.id, type, method, "unset"))]

\* nodes.push(depResult.node); edges.push(depResult.edge)
Pushed(acc, r) ==
    [acc EXCEPT !.st = r.st, !.nodes = Append(@, r.node), !.edges = Append(@, r.edge)]

\* nodes.push(...sub.nodes); edges.push(...sub.edges)
Joined(acc, sub) ==
    [acc EXCEPT !.st = sub.st, !.nodes = @ \o sub.nodes, !.edges = @ \o sub.edges]

\* the id of the node pushed last
LastId(acc) == acc.nodes[Len(acc.nodes)].id

\* processDependency from createServiceNode on: the node and its edge
DependencyEdge(st, parentNodeId, found, made) ==
    [st |-> BState(found.loaded, st.processed, made.cache, st.expanded),
     node |-> made.node,
     edge |-> Edge(parentNodeId, made.node.id, "injects", "", "unset")]

\* processDependency once the file of the dependency is looked up
DependencyNode(st, dep, parentNodeId, found) ==
    DependencyEdge(st, parentNodeId, found,
                   CreateServiceNode(st.cache, dep, found.file, dep.serviceType))

ProcessDependency(st, disk, dep, parentNodeId) ==
    DependencyNode(st, dep, parentNodeId,
                   IF dep.serviceType = "service"
                   THEN FindServiceFile(st.loaded, disk, dep.serviceName)
                   ELSE IF dep.serviceType = "repository"
                   THEN [file |-> FindRepositoryFile(st.loaded, dep.serviceName),
                         loaded |-> st.loaded]
                   ELSE [file |-> NoFile, loaded |-> st.loaded])

\* one relationship of traceEntityRelationships, its target looked up
RelatedEntity(rel, parentNodeId, acc, targetEntityPath) ==
    IF targetEntityPath = NoFile THEN acc
    ELSE Push(acc, CreateEntityNode(acc.st.cache, rel.targetEntity, targetEntityPath),
              parentNodeId, "uses", rel.relationType)

RECURSIVE RelationshipLoop(_, _, _, _)
RelationshipLoop(rels, i, parentNodeId, acc) ==
    IF i > Len(rels) THEN acc
    ELSE RelationshipLoop(rels, i + 1, parentNodeId,
            RelatedEntity(rels[i], parentNodeId, acc,
                          FindEntityFile(acc.st.loaded, rels[i].targetEntity)))

\* traceEntityRelationships once the entity class is looked up
EntityClassTraced(st, parentNodeId, cls) ==
    IF cls = << >> THEN Out(st, << >>, << >>)
    ELSE RelationshipLoop(ExtractEntityRelationships(cls[1]), 1, parentNodeId,
                          Out(st, << >>, << >>))

TraceEntityRelationships(st, entityPath, entityName, parentNodeId, config, currentDepth) ==
    IF currentDepth >= config.maxDepth \/ entityPath \in st.processed
    THEN Out(st, << >>, << >>)
    ELSE IF entityPath \notin st.loaded THEN Out(st, << >>, << >>)
    ELSE EntityClassTraced([st EXCEPT !.expanded = Append(@, entityPath)], parentNodeId,
            FindClassFrom(FileTable[entityPath].classes,
                          { entityName, StripSuffix(entityName, "Entity") }, 1))

RECURSIVE ServiceDependencyLoop(_, _, _, _, _)
ServiceDependencyLoop(deps, i, disk, parentNodeId, acc) ==
    IF i > Len(deps) THEN acc
    ELSE ServiceDependencyLoop(deps, i + 1, disk, parentNodeId,
            Pushed(acc, ProcessDependency(acc.st, disk, deps[i], parentNodeId)))

\* the entity node of a repository is pushed: its relationships are traced
EntityPushed(acc, entityPath, entityName, config, currentDepth) ==
    Joined(acc, TraceEntityRelationships(acc.st, entityPath, entityName, LastId(acc),
                                         config, currentDepth + 1))

\* `if (config.includeEntities && repoDep.injectionToken)` and, inside it,
\* `if (entityPath)`; the repository node is the node pushed last
BoundEntity(acc, entityName, config, currentDepth, entityPath) ==
    IF config.includeEntities /\ entityName # NoName /\ entityPath # NoFile
    THEN EntityPushed(Push(acc, CreateEntityNode(acc.st.cache, entityName, entityPath),
                           LastId(acc), "uses", ""),
                      entityPath, entityName, config, currentDepth)
    ELSE acc

RECURSIVE RepositoryLoop(_, _, _, _, _, _, _)
RepositoryLoop(repos, i, servicePath, parentNodeId, config, currentDepth, acc) ==
    IF i > Len(repos) THEN acc
    ELSE RepositoryLoop(repos, i + 1, servicePath, parentNodeId, config, currentDepth,
            BoundEntity(Push(acc, CreateRepositoryNode(acc.st.cache, repos[i], servicePath),
                             parentNodeId, "injects", ""),
                        repos[i].injectionToken, config, currentDepth,
                        FindEntityFile(acc.st.loaded, repos[i].injectionToken)))

\* traceServiceDependencies once the service class is looked up
ServiceClassTraced(st, disk, servicePath, parentNodeId, config, currentDepth, cls) ==
    IF cls = << >> THEN Out(st, << >>, << >>)
    ELSE RepositoryLoop(ExtractRepositoryDependencies(cls[1]), 1, servicePath,
            parentNodeId, config, currentDepth,
            ServiceDependencyLoop(ExtractConstructorDependencies(cls[1]), 1, disk,
                                  parentNodeId, Out(st, << >>, << >>)))

TraceServiceDependencies(st, disk, servicePath, serviceName, parentNodeId, config, currentDepth) ==
    IF currentDepth >= config.maxDepth \/ servicePath \in st.processed
    THEN Out(st, << >>, << >>)
    ELSE ServiceClassTraced([st EXCEPT !.processed = @ \cup {servicePath},
                                       !.expanded = IF servicePath \in st.loaded
                                                    THEN Append(@, servicePath) ELSE @],
            disk,
            servicePath, parentNodeId, config, currentDepth,
            IF servicePath \in st.loaded
            THEN FindClassFrom(FileTable[servicePath].classes,
                               { serviceName, StripSuffix(serviceName, "Service") }, 1)
            ELSE << >>)


\* An exception raised inside the try block of traceEndpointDependencies is
\* an input of the build: NoFault, or the number of constructor dependencies
\* processed before it is raised (raised after the dependency loop when the
\* class has no more dependencies than that).
NoFault == -1
Acc(st, nodes, edges, threw) ==
    [st |-> st, nodes |-> nodes, edges |-> edges, threw |-> threw]

\* `if (servicePath && !this.processedFiles.has(servicePath))`; the node of
\* the dependency is the node pushed last
ServiceTraced(acc, disk, dep, config, currentDepth, servicePath) ==
    IF servicePath.file # NoFile /\ servicePath.file \notin acc.st.processed
    THEN Joined(acc, TraceServiceDependencies(
                        [acc.st EXCEPT !.loaded = servicePath.loaded], disk,
                        servicePath.file, dep.serviceName, LastId(acc), config,
                        currentDepth + 1))
    ELSE [acc EXCEPT !.st.loaded = servicePath.loaded]

\* `if (dep.serviceType === "service" && currentDepth < config.maxDepth - 1)`
DependencyPushed(acc, disk, dep, config, currentDepth) ==
    IF dep.serviceType = "service" /\ currentDepth < config.maxDepth - 1
    THEN ServiceTraced(acc, disk, dep, config, currentDepth,
                       FindServiceFile(acc.st.loaded, disk, dep.serviceName))
    ELSE acc

RECURSIVE EndpointDependencyLoop(_, _, _, _, _, _, _, _)
EndpointDependencyLoop(deps, i, disk, parentNodeId, config, currentDepth, faultAfter, acc) ==
    IF i > Len(deps) THEN acc
    ELSE IF faultAfter = i - 1 THEN [acc EXCEPT !.threw = TRUE]
    ELSE EndpointDependencyLoop(deps, i + 1, disk, parentNodeId, config, currentDepth,
            faultAfter,
            DependencyPushed(Pushed(acc, ProcessDependency(acc.st, disk, deps[i],
                                                           parentNodeId)),
                             disk, deps[i], config, currentDepth))

\* dependencies.find((dep) => dep.parameterName === target): <<dep>> or << >>
RECURSIVE FindDependency(_, _, _)
FindDependency(deps, target, i) ==
    IF i > Len(deps) THEN << >>
    ELSE IF deps[i].parameterName = target THEN << deps[i] >>
    ELSE FindDependency(deps, target, i + 1)

\* controllerClass.getMethod(handlerName): <<method>> or << >>
RECURSIVE GetMethod(_, _, _)
GetMethod(methods, name, i) ==
    IF i > Len(methods) THEN << >>
    ELSE IF methods[i].mname = name THEN << methods[i] >>
    ELSE GetMethod(methods, name, i + 1)

\* `if (dependency) edges.push({... type: "calls", method: call.method})`
CallEdge(call, parentNodeId, dependency) ==
    IF dependency # << >>
    THEN << Edge(parentNodeId, GetServiceNodeId(dependency[1].serviceName, NoFile),
                 "calls", call.method, "unset") >>
    ELSE << >>

RECURSIVE MethodCallEdges(_, _, _, _)
MethodCallEdges(calls, i, deps, parentNodeId) ==
    IF i > Len(calls) THEN << >>
    ELSE CallEdge(calls[i], parentNodeId,
                  IF calls[i].target # "this"
                  THEN FindDependency(deps, calls[i].target, 1) ELSE << >>)
         \o MethodCallEdges(calls, i + 1, deps, parentNodeId)

\* `if (handlerMethod)`: the edges of the calls of the handler
HandlerCallEdges(deps, parentNodeId, handlerMethod) ==
    IF handlerMethod = << >> THEN << >>
    ELSE MethodCallEdges(ExtractMethodCalls(handlerMethod[1]), 1, deps, parentNodeId)

RECURSIVE DecoratorLoop(_, _, _, _, _, _, _)
DecoratorLoop(names, i, kind, edgeType, filePath, parentNodeId, acc) ==
    IF i > Len(names) THEN acc
    ELSE DecoratorLoop(names, i + 1, kind, edgeType, filePath, parentNodeId,
            Push(acc, CreateDecoratorNode(acc.st.cache, kind, names[i], filePath),
                 parentNodeId, edgeType, ""))

\* `if (config.includeGuards && endpoint.guards) for (...)`, and the same
\* for pipes and interceptors
Decorated(include, names, kind, edgeType, filePath, parentNodeId, acc) ==
    IF include THEN DecoratorLoop(names, 1, kind, edgeType, filePath, parentNodeId, acc)
    ELSE acc

\* the body of traceEndpointDependencies after the dependency loop
EndpointTail(ep, cls, deps, parentNodeId, config, acc) ==
    Decorated(config.includeInterceptors, ep.interceptors, "interceptor", "intercepts",
      ep.filePath, parentNodeId,
      Decorated(config.includePipes, ep.pipes, "pipe", "pipes", ep.filePath, parentNodeId,
        Decorated(config.includeGuards, ep.guards, "guard", "guards", ep.filePath,
          parentNodeId,
          Out(acc.st, acc.nodes,
              acc.edges \o HandlerCallEdges(deps, parentNodeId,
                                            GetMethod(cls.methods, ep.handlerName, 1))))))

\* traceEndpointDependencies; `escaped` tells that an exception left the method
Traced(out, escaped) ==
    [st |-> out.st, nodes |-> out.nodes, edges |-> out.edges, escaped |-> escaped]

\* a trace without its try block: the injected exception leaves the method
TraceResultUncaught(ep, cls, deps, parentNodeId, config, faultAfter, acc) ==
    IF acc.threw \/ faultAfter # NoFault
    THEN Traced(Out(acc.st, acc.nodes, acc.edges), TRUE)
    ELSE Traced(EndpointTail(ep, cls, deps, parentNodeId, config, acc), FALSE)

\* a trace whose resolver throws, past the catch, when it finds no file for
\* a service
TraceResultStrict(ep, cls, deps, parentNodeId, config, faultAfter, acc) ==
    Traced(IF acc.threw \/ faultAfter # NoFault
           THEN Out(acc.st, acc.nodes, acc.edges)
           ELSE EndpointTail(ep, cls, deps, parentNodeId, config, acc),
           \E i \in DOMAIN acc.nodes :
               acc.nodes[i].type = "service" /\ acc.nodes[i].filePath = NoFile)

\* the try block of traceEndpointDependencies from the dependency loop on,
\* with its catch: what was collected before an exception is returned
TraceResult(ep, cls, deps, parentNodeId, config, faultAfter, acc) ==
    IF acc.threw \/ faultAfter # NoFault
    THEN Traced(Out(acc.st, acc.nodes, acc.edges), FALSE)
    ELSE Traced(EndpointTail(ep, cls, deps, parentNodeId, config, acc), FALSE)

\* traceEndpointDependencies once the dependencies of the controller are known
ControllerAnalyzed(st, disk, ep, parentNodeId, config, currentDepth, faultAfter, cls, deps) ==
    TraceResult(ep, cls, deps, parentNodeId, config, faultAfter,
                EndpointDependencyLoop(deps, 1, disk, parentNodeId, config, currentDepth,
                                       faultAfter, Acc(st, << >>, << >>, FALSE)))

\* traceEndpointDependencies once the controller class is looked up
ControllerFound(st, disk, ep, parentNodeId, config, currentDepth, faultAfter, cls) ==
    IF cls = << >> THEN Traced(Out(st, << >>, << >>), FALSE)
    ELSE ControllerAnalyzed(st, disk, ep, parentNodeId, config, currentDepth, faultAfter,
                            cls[1], ExtractConstructorDependencies(cls[1]))

TraceEndpointDependencies(st, disk, ep, parentNodeId, config, currentDepth, faultAfter) ==
    IF currentDepth >= config.maxDepth THEN Traced(Out(st, << >>, << >>), FALSE)
    ELSE IF ep.filePath \notin st.loaded \/ ep.filePath \in st.processed
    THEN Traced(Out(st, << >>, << >>), FALSE)
    ELSE ControllerFound([st EXCEPT !.processed = @ \cup {ep.filePath},
                                    !.expanded = Append(@, ep.filePath)], disk, ep,
            parentNodeId, config, currentDepth, faultAfter,
            FindClassFrom(FileTable[ep.filePath].classes, {ep.controller}, 1))

\* removeDuplicateNodes: the first node of every id is kept
RECURSIVE RemoveDuplicateNodesFrom(_, _, _)
RemoveDuplicateNodesFrom(nodes, i, seen) ==
    IF i > Len(nodes) THEN << >>
    ELSE IF nodes[i].id \in seen THEN RemoveDuplicateNodesFrom(nodes, i + 1, seen)
    ELSE << nodes[i] >> \o RemoveDuplicateNodesFrom(nodes, i + 1, seen \cup {nodes[i].id})

RemoveDuplicateNodes(nodes) == RemoveDuplicateNodesFrom(nodes, 1, {})

\* a key that leaves the kind of the edge out
EdgeKeyWithoutKind(e) == << e.from, e.to >>

\* the key `${edge.from}->${edge.to}:${edge.type}`
EdgeKey(e) == << e.from, e.to, e.type >>

RECURSIVE RemoveDuplicateEdgesFrom(_, _, _)
RemoveDuplicateEdgesFrom(edges, i, seen) ==
    IF i > Len(edges) THEN << >>
    ELSE IF EdgeKey(edges[i]) \in seen THEN RemoveDuplicateEdgesFrom(edges, i + 1, seen)
    ELSE << edges[i] >> \o RemoveDuplicateEdgesFrom(edges, i + 1, seen \cup {EdgeKey(edges[i])})

RemoveDuplicateEdges(edges) == RemoveDuplicateEdgesFrom(edges, 1, {})

Graph(nodes, edges, rootNodes) == [nodes |-> nodes, edges |-> edges, rootNodes |-> rootNodes]

\* what one iteration hands to buildCallGraph: the root node and the trace
Iterated(root, t) ==
    [st |-> t.st, root |-> root, nodes |-> t.nodes, edges |-> t.edges,
     escaped |-> t.escaped]

\* the iteration once the endpoint node is made
EndpointCreated(st, disk, ep, config, faultAfter, made) ==
    Iterated(made.node,
             TraceEndpointDependencies([st EXCEPT !.cache = made.cache], disk, ep,
                                       made.node.id, config, 0, faultAfter))

\* one iteration of the loop of buildCallGraph over the endpoints
EndpointIteration(st, disk, ep, config, faultAfter) ==
    EndpointCreated(st, disk, ep, config, faultAfter, CreateEndpointNode(st.cache, ep))


\* ------------------------------------------------------------ GraphTraversal
\* graph.edges.filter((e) => e.from === nodeId)
Outgoing(es, nodeId) == SelectSeq(es, LAMBDA e : e.from = nodeId)

\* currentPath.indexOf(nodeId): the first index, 0 when absent
RECURSIVE IndexOf(_, _, _)
IndexOf(path, nodeId, i) ==
    IF i > Len(path) THEN 0
    ELSE IF path[i] = nodeId THEN i
    ELSE IndexOf(path, nodeId, i + 1)

\* detectCircularDependencies: dfs works on visited, recursionStack,
\* currentPath and cycles, which one call shares among all its dfs calls
RECURSIVE Dfs(_, _, _)
RECURSIVE DfsEdges(_, _, _, _)
Dfs(nodeId, s, es) ==
    IF nodeId \in s.recursionStack
    THEN LET cycleStart == IndexOf(s.currentPath, nodeId, 1)
         IN  [found |-> TRUE,
              s |-> IF cycleStart # 0
                    THEN [s EXCEPT !.cycles = Append(@,
                            SubSeq(s.currentPath, cycleStart, Len(s.currentPath))
                              \o << nodeId >>)]
                    ELSE s]
    ELSE IF nodeId \in s.visited THEN [found |-> FALSE, s |-> s]
    ELSE LET r == DfsEdges(Outgoing(es, nodeId), 1,
                           [s EXCEPT !.visited = @ \cup {nodeId},
                                     !.recursionStack = @ \cup {nodeId},
                                     !.currentPath = Append(@, nodeId)], es)
         IN  IF r.found THEN r
             ELSE [found |-> FALSE,
                   s |-> [r.s EXCEPT !.recursionStack = @ \ {nodeId},
                                     !.currentPath = SubSeq(@, 1, Len(@) - 1)]]
DfsEdges(out, i, s, es) ==
    IF i > Len(out) THEN [found |-> FALSE, s |-> s]
    ELSE LET r == Dfs(out[i].to, s, es)
         IN  IF r.found THEN r ELSE DfsEdges(out, i + 1, r.s, es)

RECURSIVE DetectFrom(_, _, _)
DetectFrom(g, i, s) ==
    IF i > Len(g.nodes) THEN s.cycles
    ELSE IF g.nodes[i].id \in s.visited THEN DetectFrom(g, i + 1, s)
    ELSE DetectFrom(g, i + 1, Dfs(g.nodes[i].id, s, g.edges).s)

DetectCircularDependencies(g) ==
    DetectFrom(g, 1, [visited |-> {}, recursionStack |-> {}, currentPath |-> << >>,
                      cycles |-> << >>])

\* a queue that hands out its newest entry
DequeueNewest(queue) ==
    [item |-> queue[Len(queue)], rest |-> SubSeq(queue, 1, Len(queue) - 1)]

\* findShortestPath: queue.shift()
Dequeue(queue) == [item |-> Head(queue), rest |-> Tail(queue)]

RECURSIVE EnqueueAll(_, _, _, _)
\* for (const edge of outgoingEdges) queue.push({nodeId: edge.to, path: [...path, edge.to]})
EnqueueAll(queue, out, i, path) ==
    IF i > Len(out) THEN queue
    ELSE EnqueueAll(Append(queue, [nodeId |-> out[i].to, path |-> Append(path, out[i].to)]),
                    out, i + 1, path)

\* ------------------------------------------------------------------- state
VARIABLES
    disk,            \* the source files that exist
    loaded,          \* CallGraphParser.project: the source files loaded in it
    nodeCache,       \* CallGraphParser.nodeCache
    processedFiles,  \* CallGraphParser.processedFiles
    expanded,        \* history: the files analysed by this build, in order
    pc,              \* "idle", "building" (inside buildCallGraph), "failed" (it threw)
    endpoints,       \* buildCallGraph: the endpoints argument
    config,          \* buildCallGraph: graphConfig
    fault,           \* the exception injected in this build: [ep, after]
    idx,             \* buildCallGraph: position of the loop over endpoints
    nodes,           \* buildCallGraph: nodes
    edges,           \* buildCallGraph: edges
    rootNodes,       \* buildCallGraph: rootNodes
    result,          \* the graph returned by the last build
    builds,          \* number of builds that returned
    caller,          \* who runs the build: [kind, endpoint]
    published,       \* CallGraphProvider.callGraph after showEnhancedCallGraph
    contrib,         \* history: what every endpoint of this build contributed
    ref,             \* history: the same build run without the injected exception
    history,         \* history: inputs and id sets of the builds that returned
    sp               \* one call of GraphTraversal.findShortestPath

vars == << disk, loaded, nodeCache, processedFiles, expanded, pc, endpoints, config, fault, idx,
           nodes, edges, rootNodes, result, builds, caller, published, contrib, ref,
           history, sp >>
builderVars == << disk, loaded, nodeCache, processedFiles, expanded, pc, endpoints, config, fault,
                  idx, nodes, edges, rootNodes, result, builds, caller, published,
                  contrib, ref, history >>

NoGraph == Graph(<< >>, << >>, << >>)
NoFaultRec == [ep |-> 0, after |-> NoFault]
NoCall == [pc |-> "none"]
Faults(eps) == {NoFaultRec} \cup
               { [ep |-> i, after |-> k] : i \in DOMAIN eps, k \in 0..MaxFaultAfter }
FaultFor(i) == IF fault.ep = i THEN fault.after ELSE NoFault

RECURSIVE SeqsUpTo(_, _)
SeqsUpTo(S, n) ==
    IF n = 0 THEN { << >> }
    ELSE LET shorter == SeqsUpTo(S, n - 1)
         IN  shorter \cup { Append(s, x) : s \in { t \in shorter : Len(t) = n - 1 }, x \in S }

EndpointLists == SeqsUpTo(EndpointUniverse, MaxEndpoints)

\* NestParser.parseEndpoints(): the endpoints of the workspace in file order
RECURSIVE SortedEndpoints(_)
SortedEndpoints(S) ==
    IF S = {} THEN << >>
    ELSE LET first == CHOOSE e \in S : \A o \in S :
                         e.filePath < o.filePath
                         \/ (e.filePath = o.filePath /\ e.lineNumber <= o.lineNumber)
         IN  << first >> \o SortedEndpoints(S \ {first})
ParsedEndpoints == SortedEndpoints(EndpointUniverse)

NodeIds(ns) == { ns[i].id : i \in DOMAIN ns }
EdgeKeys(es) == { EdgeKey(es[i]) : i \in DOMAIN es }
Contribution(it) == [nodes |-> {it.root.id} \cup NodeIds(it.nodes), edges |-> EdgeKeys(it.edges)]

Init ==
    /\ disk \in Trees
    /\ loaded = LoadSourceFiles(disk)
    /\ nodeCache = {}
    /\ processedFiles = {}
    /\ expanded = << >>
    /\ pc = "idle"
    /\ endpoints = << >>
    /\ config = DefaultConfig
    /\ fault = NoFaultRec
    /\ idx = 1
    /\ nodes = << >>
    /\ edges = << >>
    /\ rootNodes = << >>
    /\ result = NoGraph
    /\ builds = 0
    /\ caller = [kind |-> "none", endpoint |-> << >>]
    /\ published = NoGraph
    /\ contrib = << >>
    /\ ref = [st |-> BState({}, {}, {}, << >>), contrib |-> << >>]
    /\ history = {}
    /\ sp = NoCall

\* buildCallGraph up to the loop: the locals are set up and the caches reset
EnterBuild(eps, cfg, f, who) ==
    /\ pc = "idle"
    /\ pc' = "building"
    /\ endpoints' = eps
    /\ config' = cfg
    /\ fault' = f
    /\ idx' = 1
    /\ nodes' = << >>
    /\ edges' = << >>
    /\ rootNodes' = << >>
    /\ nodeCache' = {}
    /\ processedFiles' = {}
    /\ expanded' = << >>
    /\ caller' = who
    /\ contrib' = << >>
    /\ ref' = [st |-> BState(loaded, {}, {}, << >>), contrib |-> << >>]
    /\ UNCHANGED << disk, loaded, result, builds, published, history, sp >>

\* buildCallGraph(endpoints, config) called on a fresh builder
BuildCallGraph(eps, cfg, f) ==
    EnterBuild(eps, cfg, f, [kind |-> "direct", endpoint |-> << >>])

\* showEnhancedCallGraph(endpoint?) up to its build call; epOpt is <<endpoint>> or << >>
ShowEnhancedCallGraph(epOpt, f) ==
    EnterBuild(IF epOpt = << >> THEN ParsedEndpoints ELSE epOpt, DefaultConfig, f,
               [kind |-> "show", endpoint |-> epOpt])

\* one iteration of `for (const endpoint of endpoints)`
ProcessEndpoint ==
    /\ pc = "building"
    /\ idx <= Len(endpoints)
    /\ \E it \in {EndpointIteration(BState(loaded, processedFiles, nodeCache, expanded), disk,
                                   endpoints[idx], config, FaultFor(idx))},
           rit \in {EndpointIteration(ref.st, disk, endpoints[idx], config, NoFault)} :
           /\ loaded' = it.st.loaded
           /\ processedFiles' = it.st.processed
           /\ expanded' = it.st.expanded
           /\ nodeCache' = it.st.cache
           /\ nodes' = Append(nodes, it.root) \o it.nodes
           /\ edges' = edges \o it.edges
           /\ rootNodes' = Append(rootNodes, it.root.id)
           /\ contrib' = Append(contrib, Contribution(it))
           /\ ref' = [st |-> rit.st, contrib |-> Append(ref.contrib, Contribution(rit))]
           /\ pc' = IF it.escaped THEN "failed" ELSE "building"
    /\ idx' = idx + 1
    /\ UNCHANGED << disk, endpoints, config, fault, result, builds, caller, published,
                    history, sp >>


\* ------------------------------------- CallGraphProvider: demo enrichment
\* nodes.find((n) => n.type === type): <<node>> or << >>
RECURSIVE FindNodeOfType(_, _, _)
FindNodeOfType(ns, type, i) ==
    IF i > Len(ns) THEN << >>
    ELSE IF ns[i].type = type THEN << ns[i] >>
    ELSE FindNodeOfType(ns, type, i + 1)

\* edges.findIndex((e) => e.from === from && e.to === to): index or 0
RECURSIVE FindEdgeIndex(_, _, _, _)
FindEdgeIndex(es, from, to, i) ==
    IF i > Len(es) THEN 0
    ELSE IF es[i].from = from /\ es[i].to = to THEN i
    ELSE FindEdgeIndex(es, from, to, i + 1)

MutatingMethods == {"POST", "PUT", "PATCH"}

\* inputDto.match(/(?:Filter|Create|Update)(\w+)Dto/)
InputDtoEntity(dto) ==
    IF dto.pre \in {"Filter", "Create", "Update"} /\ dto.suf = "Dto" /\ dto.stem # ""
    THEN << N("", dto.stem, "") >> ELSE << >>

\* outputDto.match(/(\w+)\[\]/) with arrayMatch[1] !== "Promise", else
\* outputDto.match(/\w+:\s*(\w+)\[\]/)
OutputDtoEntity(dto) ==
    IF dto.suf \in {"[]", "[]>"} /\ dto.stem # "" /\ dto.stem # "Promise"
    THEN << N("", dto.stem, "") >> ELSE << >>

\* generateRepositoryMethodName
GenerateRepositoryMethodName(httpMethod, entityName) ==
    CASE httpMethod = "GET" -> "find" \o entityName.stem \o "s"
      [] httpMethod = "POST" -> "create" \o entityName.stem
      [] httpMethod \in {"PUT", "PATCH"} -> "update" \o entityName.stem
      [] httpMethod = "DELETE" -> "delete" \o entityName.stem
      [] OTHER -> "process" \o entityName.stem

DemoId(kind, name) == Id(kind, name, NoPathPart, "", NoLine)

\* the part of enhanceCallGraphWithDemoData that runs when the graph has an
\* endpoint node and a service node
DemoFlow(g, ep, endpointNode, serviceNode) ==
    LET base == StripController(ep.controller)
        at == FindEdgeIndex(g.edges, endpointNode.id, serviceNode.id, 1)
        edges0 == IF at = 0 THEN g.edges
                  ELSE [g.edges EXCEPT ![at] = [@ EXCEPT !.type = "calls",
                                                         !.method = ep.handlerName]]
        repoName == N("", base.stem, "Repository")
        repoNode == Node(DemoId("demo-repository", repoName), repoName, "repository",
                         ep.filePath, ep.lineNumber + 10, "true")
        fromInput == IF ep.inputDto # NoName THEN InputDtoEntity(ep.inputDto) ELSE << >>
        fromOutput == IF ep.outputDto # NoName /\ fromInput = << >>
                      THEN OutputDtoEntity(ep.outputDto) ELSE << >>
        isDemoEntity == fromInput = << >> /\ fromOutput = << >>
        entityName == IF fromInput # << >> THEN fromInput[1]
                      ELSE IF fromOutput # << >> THEN fromOutput[1] ELSE base
        entityNode == Node(DemoId(IF isDemoEntity THEN "demo-entity" ELSE "entity", entityName),
                           entityName, "entity", ep.filePath, ep.lineNumber + 20,
                           IF isDemoEntity THEN "true" ELSE "false")
        nodes1 == g.nodes \o << repoNode, entityNode >>
        edges1 == edges0 \o
                  << Edge(serviceNode.id, repoNode.id, "calls",
                          GenerateRepositoryMethodName(ep.method, entityName), "true"),
                     Edge(repoNode.id, entityNode.id, "uses", "", "true") >>
        inNode == Node(DemoId("dto", ep.inputDto), ep.inputDto, "dto", ep.filePath,
                       ep.lineNumber + 30, "false")
        demoDtoName == N("Create", base.stem, "Dto")
        demoDto == Node(DemoId("demo-dto", N("", ep.controller.stem \o ep.controller.suf, "Dto")),
                        demoDtoName, "dto", ep.filePath, ep.lineNumber + 30, "true")
        nodes2 == IF ep.inputDto # NoName THEN Append(nodes1, inNode)
                  ELSE IF ep.method \in MutatingMethods THEN Append(nodes1, demoDto)
                  ELSE nodes1
        edges2 == IF ep.inputDto # NoName
                  THEN Append(edges1, Edge(endpointNode.id, inNode.id, "uses", "", "false"))
                  ELSE IF ep.method \in MutatingMethods
                  THEN Append(edges1, Edge(endpointNode.id, demoDto.id, "uses", "", "true"))
                  ELSE edges1
        outNode == Node(DemoId("dto", ep.outputDto), ep.outputDto, "dto", ep.filePath,
                        ep.lineNumber + 35, "false")
        nodes3 == IF ep.outputDto # NoName THEN Append(nodes2, outNode) ELSE nodes2
        edges3 == IF ep.outputDto # NoName
                  THEN Append(edges2, Edge(serviceNode.id, outNode.id, "returns", "", "false"))
                  ELSE edges2
        guardNode == Node(DemoId("demo-guard", AuthGuard), AuthGuard, "guard", ep.filePath,
                          ep.lineNumber + 40, "true")
        nodes4 == IF ~ep.isPublic THEN Append(nodes3, guardNode) ELSE nodes3
        edges4 == IF ~ep.isPublic
                  THEN Append(edges3, Edge(endpointNode.id, guardNode.id, "guards", "", "true"))
                  ELSE edges3
        pipeName == N("", "Validation", "Pipe")
        pipeNode == Node(DemoId("demo-pipe", pipeName), pipeName, "pipe", ep.filePath,
                         ep.lineNumber + 50, "true")
        withPipe == ep.inputDto # NoName \/ ep.method \in MutatingMethods
    IN  Graph(IF withPipe THEN Append(nodes4, pipeNode) ELSE nodes4,
              IF withPipe
              THEN Append(edges4, Edge(endpointNode.id, pipeNode.id, "pipes", "", "true"))
              ELSE edges4,
              g.rootNodes)

\* enhanceCallGraphWithDemoData(callGraph, endpoint?); epOpt is <<endpoint>> or << >>
EnhanceCallGraphWithDemoData(g, epOpt) ==
    IF epOpt # << >> /\ Len(g.nodes) <= 2
    THEN LET endpointNode == FindNodeOfType(g.nodes, "endpoint", 1)
             serviceNode == FindNodeOfType(g.nodes, "service", 1)
         IN  IF endpointNode # << >> /\ serviceNode # << >>
             THEN DemoFlow(g, epOpt[1], endpointNode[1], serviceNode[1])
             ELSE g
    ELSE g

\* `if (callGraph.nodes.length <= 2)` of showEnhancedCallGraph
MinimalGraphSize == 2
Shown(g, epOpt) ==
    IF Len(g.nodes) <= MinimalGraphSize THEN EnhanceCallGraphWithDemoData(g, epOpt) ELSE g

\* the end of buildCallGraph: duplicates are removed and the graph returned;
\* when showEnhancedCallGraph made the call, it enriches and publishes it
ReturnGraph ==
    /\ pc = "building"
    /\ idx > Len(endpoints)
    /\ LET g == Graph(RemoveDuplicateNodes(nodes), RemoveDuplicateEdges(edges), rootNodes)
       IN  /\ result' = g
           /\ published' = IF caller.kind = "show" THEN Shown(g, caller.endpoint)
                           ELSE published
           /\ history' = history \cup
                 { [endpoints |-> endpoints, config |-> config,
                    nodes |-> NodeIds(g.nodes), edges |-> EdgeKeys(g.edges)] }
    /\ pc' = "idle"
    /\ builds' = builds + 1
    /\ UNCHANGED << disk, loaded, nodeCache, processedFiles, expanded, endpoints, config,
                    fault, idx,
                    nodes, edges, rootNodes, caller, contrib, ref, sp >>

\* a builder is constructed, then used for one build or one show command
Fresh == pc = "idle" /\ builds = 0

Next ==
    \/ Fresh /\ \E eps \in EndpointLists :
                   \/ \E cfg \in Configs : BuildCallGraph(eps, cfg, NoFaultRec)
                   \/ \E f \in Faults(eps) : BuildCallGraph(eps, DefaultConfig, f)
    \/ Fresh /\ \E epOpt \in { << e >> : e \in EndpointUniverse } \cup { << >> } :
                   \E f \in Faults(IF epOpt = << >> THEN ParsedEndpoints ELSE epOpt) :
                      ShowEnhancedCallGraph(epOpt, f)
    \/ ProcessEndpoint
    \/ ReturnGraph

Spec == Init /\ [][Next]_vars


\* ------------------------------------------------- findShortestPath, stepwise
NumPathNodes == 3    \* node ids 1..NumPathNodes
MaxPathEdges == 3    \* length of the edge list

PathNodes == 1..NumPathNodes
PathEdges == { [from |-> a, to |-> b] : a \in PathNodes, b \in PathNodes }
PathEdgeLists == SeqsUpTo(PathEdges, MaxPathEdges)

\* findShortestPath(graph, startNodeId, endNodeId) up to the loop
PathCall(es, startNodeId, endNodeId) ==
    [pc |-> "loop", edges |-> es, start |-> startNodeId, end |-> endNodeId,
     queue |-> << [nodeId |-> startNodeId, path |-> << startNodeId >>] >>,
     visited |-> {}, path |-> << >>, iterations |-> 0]

InitPath ==
    /\ disk = Files
    /\ loaded = LoadSourceFiles(disk)
    /\ nodeCache = {}
    /\ processedFiles = {}
    /\ expanded = << >>
    /\ pc = "idle"
    /\ endpoints = << >>
    /\ config = DefaultConfig
    /\ fault = NoFaultRec
    /\ idx = 1
    /\ nodes = << >>
    /\ edges = << >>
    /\ rootNodes = << >>
    /\ result = NoGraph
    /\ builds = 0
    /\ caller = [kind |-> "none", endpoint |-> << >>]
    /\ published = NoGraph
    /\ contrib = << >>
    /\ ref = [st |-> BState({}, {}, {}, << >>), contrib |-> << >>]
    /\ history = {}
    /\ \E es \in PathEdgeLists, a \in PathNodes, b \in PathNodes : sp = PathCall(es, a, b)

\* one iteration of `while (queue.length > 0)`
ShortestPathStep ==
    /\ sp.pc = "loop"
    /\ Len(sp.queue) > 0
    /\ LET d == Dequeue(sp.queue)
           nodeId == d.item.nodeId
       IN  sp' = IF nodeId = sp.end
                 THEN [sp EXCEPT !.pc = "done", !.path = d.item.path, !.queue = d.rest,
                                 !.iterations = @ + 1]
                 ELSE IF nodeId \in sp.visited
                 THEN [sp EXCEPT !.queue = d.rest, !.iterations = @ + 1]
                 ELSE [sp EXCEPT !.visited = @ \cup {nodeId},
                                 !.queue = EnqueueAll(d.rest, Outgoing(sp.edges, nodeId), 1,
                                                      d.item.path),
                                 !.iterations = @ + 1]
    /\ UNCHANGED builderVars

\* the loop ends with an empty queue: `return []`
ShortestPathNone ==
    /\ sp.pc = "loop"
    /\ Len(sp.queue) = 0
    /\ sp' = [sp EXCEPT !.pc = "done", !.path = << >>]
    /\ UNCHANGED builderVars

NextPath == ShortestPathStep \/ ShortestPathNone

SpecPath == InitPath /\ [][NextPath]_vars


\* ------------------------------------ several builds on one builder instance
\* the budgets used when one builder runs several builds
RepeatConfigs == { DefaultConfig, Config(1, TRUE, TRUE) }
MaxRepeatEndpoints == 1    \* endpoints in one of several builds
RepeatEndpoints == { e \in EndpointUniverse : e.controller \in {AController, UsersController} }
RepeatLists == SeqsUpTo(RepeatEndpoints, MaxRepeatEndpoints)

NextRepeat ==
    \/ /\ pc = "idle"
       /\ builds < MaxBuilds
       /\ \E eps \in RepeatLists, cfg \in RepeatConfigs : BuildCallGraph(eps, cfg, NoFaultRec)
    \/ ProcessEndpoint
    \/ ReturnGraph

SpecRepeat == Init /\ [][NextRepeat]_vars

\* `for (const endpoint of endpoints)` takes the next endpoint
LoopAdvances == pc = "building" /\ idx <= Len(endpoints) /\ idx' = idx + 1

\* the builder is constructed on the whole source tree
InitWhole == Init /\ disk = Files

\* buildCallGraph is one synchronous call: its loop runs on and it returns
FairSpec == InitWhole /\ [][Next]_vars /\ WF_idx(LoopAdvances) /\ WF_vars(ReturnGraph)


\* ---------------------------------------------------------------- properties
\* a build has returned its graph (in `result`)
Returned == pc = "idle" /\ builds > 0

Triple(e) == << e.from, e.to, e.type >>
Triples(es) == { Triple(es[i]) : i \in DOMAIN es }
Ids(ns) == { ns[i].id : i \in DOMAIN ns }

\* C1: the graph returned by buildCallGraph has no two nodes with the same id
\* and no two edges with the same (from, to, kind) triple, for every endpoint
\* list and budget; nothing but duplicates is removed, so edges of different
\* kinds between the same pair of nodes both survive.
NoDuplicates ==
    Returned =>
        /\ \A i, j \in DOMAIN result.nodes : result.nodes[i].id = result.nodes[j].id => i = j
        /\ \A i, j \in DOMAIN result.edges :
              Triple(result.edges[i]) = Triple(result.edges[j]) => i = j
        /\ Ids(result.nodes) = Ids(nodes)
        /\ Triples(result.edges) = Triples(edges)

\* a returned build that collected a node twice and an edge twice, and whose
\* graph keeps two edges of different kinds between one pair of nodes
DuplicatesRemoved ==
    /\ Returned
    /\ Len(result.nodes) < Len(nodes)
    /\ Len(result.edges) < Len(edges)
    /\ \E i, j \in DOMAIN result.edges :
          /\ result.edges[i].from = result.edges[j].from
          /\ result.edges[i].to = result.edges[j].to
          /\ result.edges[i].type # result.edges[j].type

\* the node ids within k hops of the ids in S
RECURSIVE WithinHops(_, _, _)
WithinHops(es, S, k) ==
    IF k = 0 THEN S
    ELSE WithinHops(es, S \cup { es[i].to : i \in { j \in DOMAIN es : es[j].from \in S } },
                    k - 1)

\* C2: with maxDepth = d every node of the returned graph is at most d hops
\* from a root, repository and entity nodes included.
DepthBound ==
    Returned =>
        Ids(result.nodes) \subseteq
            WithinHops(result.edges, { result.rootNodes[i] : i \in DOMAIN result.rootNodes },
                       config.maxDepth)

\* the class of that name in the source tree: <<class>> or << >>
ClassNamed(n) ==
    LET hits == { f \in disk : FindClassFrom(FileTable[f].classes, {n}, 1) # << >> }
    IN  IF hits = {} THEN << >>
        ELSE FindClassFrom(FileTable[Min(hits)].classes, {n}, 1)

\* the constructor of class a has a parameter of type b
Injects(a, b) ==
    /\ ClassNamed(a) # << >>
    /\ \E i \in DOMAIN ClassNamed(a)[1].ctor : ClassNamed(a)[1].ctor[i].type = b

ServiceId(n) ==
    LET hits == { f \in disk : HasServiceClass(f, n) }
    IN  GetServiceNodeId(n, IF hits = {} THEN NoFile ELSE Min(hits))

InCycle(cycle, id) == \E i \in DOMAIN cycle : cycle[i] = id

\* C3: when the controller of an endpoint injects service A, A injects B and
\* B injects A, the graph built with the default budget has both edges A->B and
\* B->A, and detectCircularDependencies reports a cycle with both node ids.
CyclicServicesReported ==
    (Returned /\ fault = NoFaultRec /\ config = DefaultConfig) =>
        \A i \in DOMAIN endpoints :
            \A a, b \in { AService, BService } :
                (a # b /\ Injects(endpoints[i].controller, a) /\ Injects(a, b) /\ Injects(b, a))
                => /\ << ServiceId(a), ServiceId(b), "injects" >> \in Triples(result.edges)
                   /\ << ServiceId(b), ServiceId(a), "injects" >> \in Triples(result.edges)
                   /\ LET cycles == DetectCircularDependencies(result)
                      IN  \E c \in DOMAIN cycles :
                             InCycle(cycles[c], ServiceId(a)) /\ InCycle(cycles[c], ServiceId(b))


\* C4: buildCallGraph terminates: a build that has started returns its graph,
\* whatever the endpoint list and the source tree (services that inject each
\* other, entities that refer to each other, dependencies without a file).
BuildTerminates == (pc = "building") ~> (pc = "idle")

HasNodeNamed(n, type) ==
    \E i \in DOMAIN result.nodes : result.nodes[i].name = n /\ result.nodes[i].type = type

\* a build has returned on a tree with the cyclic services A and B, the entities
\* User and Post that refer to each other, and a dependency without a file
CyclicTreeBuilt ==
    /\ Returned
    /\ {6, 7} \subseteq disk
    /\ Injects(AService, BService) /\ Injects(BService, AService)
    /\ HasNodeNamed(AService, "service") /\ HasNodeNamed(BService, "service")
    /\ HasNodeNamed(User, "entity") /\ HasNodeNamed(Post, "entity")
    /\ GetServiceNodeId(MissingService, NoFile) \in Ids(result.nodes)

\* the controller of the endpoint injects a service type that no file of the
\* source tree declares
HasUnresolvable(ep) ==
    /\ ClassNamed(ep.controller) # << >>
    /\ \E i \in DOMAIN ClassNamed(ep.controller)[1].ctor :
          LET type == ClassNamed(ep.controller)[1].ctor[i].type
          IN  EndsWith(type, "Service") /\ \A f \in disk : ~HasServiceClass(f, type)

\* C5: when the controller of an endpoint injects a type for which no file
\* can be resolved, buildCallGraph does not throw, and the graph it returns
\* has the node of that endpoint among its nodes and its id among its roots.
UnresolvedTolerated ==
    /\ pc # "failed"
    /\ Returned =>
          \A i \in DOMAIN endpoints :
              HasUnresolvable(endpoints[i]) =>
                  /\ EndpointId(endpoints[i]) \in Ids(result.nodes)
                  /\ \E r \in DOMAIN result.rootNodes :
                        result.rootNodes[r] = EndpointId(endpoints[i])

\* a build without injected exception has returned for an endpoint whose
\* controller injects the undeclared MissingService
UnresolvedBuilt ==
    /\ Returned
    /\ fault = NoFaultRec
    /\ \E i \in DOMAIN endpoints : HasUnresolvable(endpoints[i])
    /\ GetServiceNodeId(MissingService, NoFile) \in Ids(result.nodes)

\* C6: an exception raised while endpoint i is analysed does not escape the
\* build, what endpoint i had collected is kept, and every other endpoint of
\* the batch contributes exactly what it contributes when i does not fail.
FailureIsolated ==
    /\ pc # "failed"
    /\ (Returned /\ fault # NoFaultRec) =>
          /\ contrib[fault.ep].nodes \subseteq Ids(result.nodes)
          /\ contrib[fault.ep].edges \subseteq Triples(result.edges)
          /\ \A j \in DOMAIN endpoints : j # fault.ep => contrib[j] = ref.contrib[j]

\* C7: builds on one builder instance with the same endpoint list and the
\* same budget return graphs with equal node-id sets and equal edge sets,
\* whatever was built on the instance before.
RepeatableBuild ==
    \A h1, h2 \in history :
        (h1.endpoints = h2.endpoints /\ h1.config = h2.config) => h1 = h2


HasPathEdge(es, a, b) == \E i \in DOMAIN es : es[i].from = a /\ es[i].to = b

\* C8: findShortestPath returns a sequence that begins with start, ends with
\* end, follows directed edges and has the least possible number of hops; it
\* returns the empty sequence exactly when end cannot be reached from start;
\* its loop ends after at most one iteration per queue entry, cycles or not.
ShortestPathCorrect ==
    /\ sp.pc = "done" =>
          LET reachable == sp.end \in WithinHops(sp.edges, {sp.start}, Len(sp.edges))
              hops == Len(sp.path) - 1
          IN  /\ (sp.path = << >>) <=> ~reachable
              /\ reachable =>
                    /\ sp.path[1] = sp.start
                    /\ sp.path[Len(sp.path)] = sp.end
                    /\ \A k \in 1..hops : HasPathEdge(sp.edges, sp.path[k], sp.path[k + 1])
                    /\ \A h \in 0..(hops - 1) :
                          sp.end \notin WithinHops(sp.edges, {sp.start}, h)
    /\ sp.pc \in {"loop", "done"} => sp.iterations <= Len(sp.edges) + 1

\* a call returned the direct edge although a route over a third node exists
ShortcutTaken ==
    /\ sp.pc = "done"
    /\ Len(sp.path) = 2
    /\ sp.start # sp.end
    /\ \E m \in PathNodes \ {sp.start, sp.end} :
          HasPathEdge(sp.edges, sp.start, m) /\ HasPathEdge(sp.edges, m, sp.end)

UsersEndpoint == CHOOSE e \in EndpointUniverse : e.controller = UsersController

\* a relationship of the entity names a target whose file is found
HasResolvableRelationship(n) ==
    /\ ClassNamed(n) # << >>
    /\ \E i \in DOMAIN ClassNamed(n)[1].rels :
          \E r \in { Relationship(ClassNamed(n)[1].rels[i]) } :
              r # << >> /\ FindEntityFile(LoadSourceFiles(disk), r[1].targetEntity) # NoFile

\* the build of the one endpoint of UsersController, whose UsersService injects
\* a repository bound to User: entities included, a budget of two levels or
\* more, the file of User present and no relationship of User resolvable
UsersScenario ==
    /\ Returned
    /\ endpoints = << UsersEndpoint >>
    /\ fault = NoFaultRec
    /\ config.includeEntities
    /\ config.maxDepth >= 2
    /\ FindEntityFile(LoadSourceFiles(disk), User) # NoFile
    /\ ~HasResolvableRelationship(User)

\* C9: for the one endpoint whose controller injects UsersService, which
\* injects one repository bound to the entity User whose file resolves, the
\* build with includeEntities returns exactly 4 nodes (endpoint, service,
\* repository, entity) and exactly 3 edges (endpoint -injects-> service
\* -injects-> repository -uses-> entity), with the endpoint as only root.
UsersGraph ==
    UsersScenario =>
        /\ Len(result.nodes) = 4
        /\ Len(result.edges) = 3
        /\ \E e, s, r, n \in DOMAIN result.nodes :
              /\ result.nodes[e].type = "endpoint"
              /\ result.nodes[s].type = "service" /\ result.nodes[s].name = UsersService
              /\ result.nodes[r].type = "repository"
              /\ result.nodes[n].type = "entity" /\ result.nodes[n].name = User
              /\ Triples(result.edges) =
                    { << result.nodes[e].id, result.nodes[s].id, "injects" >>,
                      << result.nodes[s].id, result.nodes[r].id, "injects" >>,
                      << result.nodes[r].id, result.nodes[n].id, "uses" >> }
              /\ result.rootNodes = << result.nodes[e].id >>

\* the scenario built with the default budget
UsersGraphBuilt == UsersScenario /\ config = DefaultConfig /\ HasNodeNamed(User, "entity")

HasSynthetic(g, type) ==
    \E i \in DOMAIN g.nodes : g.nodes[i].type = type /\ g.nodes[i].isDemoData = "true"

\* C10: whenever the raw graph built for an endpoint has at most 2 nodes, the
\* graph published by showEnhancedCallGraph has a repository node and an
\* entity node tagged as synthetic.
SmallGraphEnriched ==
    (Returned /\ caller.kind = "show" /\ caller.endpoint # << >> /\ fault = NoFaultRec
       /\ Len(result.nodes) <= 2)
    => HasSynthetic(published, "repository") /\ HasSynthetic(published, "entity")

\* showEnhancedCallGraph has published a graph that demo enrichment extended
Enriched ==
    /\ Returned
    /\ caller.kind = "show"
    /\ Len(published.nodes) > Len(result.nodes)

\* C11: every node and every edge that demo enrichment adds to the built
\* graph carries the synthetic-data flag set to true.
EnrichmentFlagged ==
    Enriched =>
        /\ \A i \in DOMAIN published.nodes :
              i > Len(result.nodes) => published.nodes[i].isDemoData = "true"
        /\ \A i \in DOMAIN published.edges :
              i > Len(result.edges) => published.edges[i].isDemoData = "true"

\* the constructor dependencies of the class that declares the endpoint
DeclaredDependencies(ep) ==
    IF ClassNamed(ep.controller) = << >> THEN << >>
    ELSE ExtractConstructorDependencies(ClassNamed(ep.controller)[1])

\* the graph has an injects edge from the node of the endpoint to a node of
\* the dependency
InjectsEdge(g, ep, dep) ==
    \E i \in DOMAIN g.edges, j \in DOMAIN g.nodes :
        /\ g.edges[i].type = "injects"
        /\ g.edges[i].from = EndpointId(ep)
        /\ g.edges[i].to = g.nodes[j].id
        /\ g.nodes[j].name = dep.serviceName

\* C12: for every endpoint of the list of one build (maxDepth >= 1) and every
\* constructor dependency of its declaring class, the returned graph has an
\* injects edge from the node of that endpoint to the node of the dependency,
\* also for later endpoints declared in the same controller file.
EveryEndpointInjects ==
    (Returned /\ fault = NoFaultRec /\ config.maxDepth >= 1) =>
        \A k \in DOMAIN endpoints :
            \A d \in DOMAIN DeclaredDependencies(endpoints[k]) :
                InjectsEdge(result, endpoints[k], DeclaredDependencies(endpoints[k])[d])

\* C13: within one buildCallGraph call no source file (controller, service or
\* entity file) is analysed more than once, whichever call path reaches it.
FileExpandedOnce ==
    \A i, j \in DOMAIN expanded : expanded[i] = expanded[j] => i = j

\* C14: a dependency (service, repository or entity) for which the resolver
\* returns no file gets no node in the built graph: every such node of the
\* returned graph has a resolved file.
NoUnresolvedNode ==
    Returned =>
        \A i \in DOMAIN result.nodes :
            result.nodes[i].type \in {"service", "repository", "entity"}
                => result.nodes[i].filePath # NoFile

\* C15: in every returned graph every root id is the id of an endpoint node
\* of the graph, and every node is reachable from some root along the edges.
RootedGraph ==
    Returned =>
        /\ \A r \in DOMAIN result.rootNodes :
              \E i \in DOMAIN result.nodes :
                  /\ result.nodes[i].id = result.rootNodes[r]
                  /\ result.nodes[i].type = "endpoint"
        /\ Ids(result.nodes) \subseteq
              WithinHops(result.edges,
                         { result.rootNodes[r] : r \in DOMAIN result.rootNodes },
                         Len(result.nodes))

\* a returned graph with two roots, an entity three edges away from a root
\* and nodes that were collected more than once
RootedGraphBuilt ==
    /\ Returned
    /\ Cardinality({ result.rootNodes[r] : r \in DOMAIN result.rootNodes }) = 2
    /\ Len(result.nodes) < Len(nodes)
    /\ \E i \in DOMAIN result.nodes :
          /\ result.nodes[i].type = "entity"
          /\ result.nodes[i].id \notin
                WithinHops(result.edges,
                           { result.rootNodes[r] : r \in DOMAIN result.rootNodes }, 2)

DecoratorRule(g, kind, edgeType, included, declared) ==
    /\ (\E i \in DOMAIN g.nodes : g.nodes[i].type = kind) => included
    /\ included =>
          \A k \in DOMAIN endpoints : \A n \in DOMAIN declared[k] :
              \E i \in DOMAIN g.nodes, e \in DOMAIN g.edges :
                  /\ g.nodes[i].type = kind
                  /\ g.nodes[i].name = declared[k][n]
                  /\ g.edges[e].from = EndpointId(endpoints[k])
                  /\ g.edges[e].to = g.nodes[i].id
                  /\ g.edges[e].type = edgeType
    /\ \A i \in DOMAIN g.nodes, e \in DOMAIN g.edges :
          g.nodes[i].type = kind => g.edges[e].from # g.nodes[i].id

\* C17: a returned graph has a guard (pipe, interceptor) node only if
\* includeGuards (includePipes, includeInterceptors) is set; when it is set
\* there is a node and a guards (pipes, intercepts) edge from the endpoint
\* for every declared name, and these nodes have no outgoing edge.
DecoratorsAsConfigured ==
    (Returned /\ fault = NoFaultRec /\ config.maxDepth >= 1) =>
        /\ DecoratorRule(result, "guard", "guards", config.includeGuards,
                         [k \in DOMAIN endpoints |-> endpoints[k].guards])
        /\ DecoratorRule(result, "pipe", "pipes", config.includePipes,
                         [k \in DOMAIN endpoints |-> endpoints[k].pipes])
        /\ DecoratorRule(result, "interceptor", "intercepts", config.includeInterceptors,
                         [k \in DOMAIN endpoints |-> endpoints[k].interceptors])


\* ------------------- findReachableNodes, detectCircularDependencies on graphs
NumGraphNodes == 4   \* node ids 1..NumGraphNodes, listed in this order
MaxGraphEdges == 4   \* length of the edge list
MaxHops == 2         \* maxDepth of findReachableNodes is in 0..MaxHops

GraphNodes == 1..NumGraphNodes
GraphEdges == { [from |-> a, to |-> b] : a \in GraphNodes, b \in GraphNodes }
\* the edge lists of at most n edges
GraphEdgeLists(n) == SeqsUpTo(GraphEdges, n)
GraphOf(es) == Graph([n \in GraphNodes |-> [id |-> n]], es, << >>)

\* graph.nodes.find((n) => n.id === nodeId): <<node>> or << >>
RECURSIVE FindNode(_, _, _)
FindNode(ns, nodeId, i) ==
    IF i > Len(ns) THEN << >>
    ELSE IF ns[i].id = nodeId THEN << ns[i] >>
    ELSE FindNode(ns, nodeId, i + 1)

\* findReachableNodes: dfs works on visited and reachable, which one call
\* shares among all its dfs calls
RECURSIVE ReachDfs(_, _, _, _, _)
RECURSIVE ReachEdges(_, _, _, _, _, _)
ReachDfs(g, nodeId, depth, maxDepth, s) ==
    IF depth > maxDepth \/ nodeId \in s.visited THEN s
    ELSE ReachEdges(g, Outgoing(g.edges, nodeId), 1, depth, maxDepth,
                    [visited |-> s.visited \cup {nodeId},
                     reachable |-> s.reachable \o FindNode(g.nodes, nodeId, 1)])
ReachEdges(g, out, i, depth, maxDepth, s) ==
    IF i > Len(out) THEN s
    ELSE ReachEdges(g, out, i + 1, depth, maxDepth,
                    ReachDfs(g, out[i].to, depth + 1, maxDepth, s))

FindReachableNodes(g, startNodeId, maxDepth) ==
    ReachDfs(g, startNodeId, 0, maxDepth, [visited |-> {}, reachable |-> << >>]).reachable

InitTraversal ==
    /\ disk = Files
    /\ loaded = LoadSourceFiles(disk)
    /\ nodeCache = {}
    /\ processedFiles = {}
    /\ expanded = << >>
    /\ pc = "idle"
    /\ endpoints = << >>
    /\ config = DefaultConfig
    /\ fault = NoFaultRec
    /\ idx = 1
    /\ nodes = << >>
    /\ edges = << >>
    /\ rootNodes = << >>
    /\ result = NoGraph
    /\ builds = 0
    /\ caller = [kind |-> "none", endpoint |-> << >>]
    /\ published = NoGraph
    /\ contrib = << >>
    /\ ref = [st |-> BState({}, {}, {}, << >>), contrib |-> << >>]
    /\ history = {}
    /\ \E es \in GraphEdgeLists(MaxGraphEdges) : sp = [pc |-> "graph", graph |-> GraphOf(es)]

\* GraphTraversal.detectCircularDependencies(graph)
DetectCycles ==
    /\ sp.pc = "graph"
    /\ sp' = [pc |-> "cycles", graph |-> sp.graph,
              cycles |-> DetectCircularDependencies(sp.graph)]
    /\ UNCHANGED builderVars

\* GraphTraversal.findReachableNodes(graph, startNodeId, maxDepth)
FindReachable ==
    /\ sp.pc = "graph"
    /\ \E startNodeId \in GraphNodes, maxDepth \in 0..MaxHops :
          sp' = [pc |-> "reachable", graph |-> sp.graph, start |-> startNodeId,
                 maxDepth |-> maxDepth,
                 reachable |-> FindReachableNodes(sp.graph, startNodeId, maxDepth)]
    /\ UNCHANGED builderVars

NextTraversal == DetectCycles \/ FindReachable

SpecTraversal == InitTraversal /\ [][NextTraversal]_vars

\* C18: every cycle that detectCircularDependencies reports is a directed
\* cycle of the graph: it ends with the id it begins with and every two
\* consecutive ids are joined by an edge.
ReportedCyclesReal ==
    sp.pc = "cycles" =>
        \A c \in DOMAIN sp.cycles :
            /\ Len(sp.cycles[c]) >= 2
            /\ sp.cycles[c][1] = sp.cycles[c][Len(sp.cycles[c])]
            /\ \A i \in 1..(Len(sp.cycles[c]) - 1) :
                  [from |-> sp.cycles[c][i], to |-> sp.cycles[c][i + 1]]
                      \in { sp.graph.edges[e] : e \in DOMAIN sp.graph.edges }

Range(f) == { f[i] : i \in DOMAIN f }

\* the orders in which a directed cycle can run through distinct nodes, each
\* written from its least node
CanonicalOrders ==
    { p \in UNION { [1..n -> GraphNodes] : n \in 1..NumGraphNodes } :
        /\ \A i, j \in DOMAIN p : p[i] = p[j] => i = j
        /\ \A i \in DOMAIN p : p[1] <= p[i] }

\* the directed cycles of a graph with the edges es
SimpleCycles(es) ==
    { p \in CanonicalOrders :
        \A i \in DOMAIN p :
            [from |-> p[i], to |-> p[(i % Len(p)) + 1]] \in Range(es) }

\* C19: when the directed cycles of a graph are pairwise node-disjoint,
\* detectCircularDependencies reports each of them, with an entry that lists
\* exactly the nodes of that cycle.
DisjointCyclesReported ==
    (/\ sp.pc = "cycles"
     /\ \A p, q \in SimpleCycles(sp.graph.edges) :
           p # q => Range(p) \cap Range(q) = {})
    => \A p \in SimpleCycles(sp.graph.edges) :
           \E c \in DOMAIN sp.cycles : Range(sp.cycles[c]) = Range(p)

\* C20: findReachableNodes returns exactly the nodes that a directed path of
\* at most maxDepth edges reaches from the start node (the start included),
\* each node once, whatever the order of the edge list.
ReachableExact ==
    sp.pc = "reachable" =>
        /\ Ids(sp.reachable) = WithinHops(sp.graph.edges, {sp.start}, sp.maxDepth)
        /\ \A i, j \in DOMAIN sp.reachable :
              sp.reachable[i].id = sp.reachable[j].id => i = j


\* ------------------------------- groupNodesByLevel, buildTreeNodeFromGraph
NumViewNodes == 3    \* node ids 1..NumViewNodes, listed in this order
MaxViewEdges == 3    \* length of the edge list
MaxRoots == 2        \* length of the root list
NumTreeNodes == 2    \* node ids 1..NumTreeNodes of the graphs projected to trees
MaxTreeEdges == 3    \* length of their edge list
MaxTreeDepth == 3    \* maxDepth of the tree projection is in 0..MaxTreeDepth

ViewNodes == 1..NumViewNodes
\* one id more than the nodes, so that an edge or a root can name a node that
\* is not in the graph
ViewIds == 1..(NumViewNodes + 1)
ViewEdges == { [from |-> a, to |-> b] : a \in ViewNodes, b \in ViewIds }
ViewType(k) == IF k = 1 THEN "endpoint" ELSE IF k = 2 THEN "service" ELSE "repository"
ViewNode(k) == [id |-> k, name |-> k, type |-> ViewType(k)]
ViewGraph(n, es, roots) == Graph([k \in 1..n |-> ViewNode(k)], es, roots)

\* Map.set(k, v)
Put(m, k, v) == [x \in DOMAIN m \cup {k} |-> IF x = k THEN v ELSE m[x]]

\* levelNodes.findIndex((n) => n.id === id), 0 for -1
RECURSIVE FindIndex(_, _, _)
FindIndex(ns, id, i) ==
    IF i > Len(ns) THEN 0
    ELSE IF ns[i].id = id THEN i
    ELSE FindIndex(ns, id, i + 1)

\* levelNodes.splice(index, 1) when index is not -1
Splice(ns, index) ==
    IF index = 0 THEN ns
    ELSE SubSeq(ns, 1, index - 1) \o SubSeq(ns, index + 1, Len(ns))

\* the loop over levels.entries() that removes the node from its old bucket
RemoveFromLevels(levels, id) ==
    [lvl \in DOMAIN levels |-> Splice(levels[lvl], FindIndex(levels[lvl], id, 1))]

\* if (!levels.has(k)) levels.set(k, [])
EnsureLevel(levels, k) == IF k \in DOMAIN levels THEN levels ELSE Put(levels, k, << >>)

\* levels.get(k).push(node) when the node was found
PushLevel(levels, k, found) == [levels EXCEPT ![k] = @ \o found]

\* the loop over rootNodes that initialises level 0
RECURSIVE LevelRoots(_, _, _, _)
LevelRoots(ns, roots, i, s) ==
    IF i > Len(roots) THEN s
    ELSE LevelRoots(ns, roots, i + 1,
            [s EXCEPT !.nodeToLevel = Put(@, roots[i], 0),
                      !.levels = PushLevel(EnsureLevel(@, 0), 0, FindNode(ns, roots[i], 1)),
                      !.queue = Append(@, [id |-> roots[i], level |-> 0])])

\* the body of the if inside the loop over childEdges
ChildLevelled(ns, to, childLevel, s) ==
    [s EXCEPT !.nodeToLevel = Put(@, to, childLevel),
              !.levels = IF FindNode(ns, to, 1) = << >>
                         THEN EnsureLevel(@, childLevel)
                         ELSE PushLevel(RemoveFromLevels(EnsureLevel(@, childLevel), to),
                                        childLevel, FindNode(ns, to, 1)),
              !.queue = Append(@, [id |-> to, level |-> childLevel])]

\* the loop over childEdges
RECURSIVE LevelChildren(_, _, _, _, _)
LevelChildren(ns, out, i, level, s) ==
    IF i > Len(out) THEN s
    ELSE LevelChildren(ns, out, i + 1, level,
            IF \/ out[i].to \notin DOMAIN s.nodeToLevel
               \/ s.nodeToLevel[out[i].to] > level + 1
            THEN ChildLevelled(ns, out[i].to, level + 1, s)
            ELSE s)

\* the while loop over the queue
RECURSIVE LevelLoop(_, _)
LevelLoop(g, s) ==
    IF s.queue = << >> THEN s
    ELSE IF Head(s.queue).id \in s.visited
         THEN LevelLoop(g, [s EXCEPT !.queue = Tail(@)])
         ELSE LevelLoop(g,
                 LevelChildren(g.nodes, Outgoing(g.edges, Head(s.queue).id), 1,
                               Head(s.queue).level,
                               [s EXCEPT !.queue = Tail(@),
                                         !.visited = @ \cup {Head(s.queue).id}]))

\* VisualizationHelpers.groupNodesByLevel(nodes, edges, rootNodes)
GroupNodesByLevel(g) ==
    LevelLoop(g, LevelRoots(g.nodes, g.rootNodes, 1,
                            [levels |-> << >>, nodeToLevel |-> << >>,
                             visited |-> {}, queue |-> << >>])).levels


\* typeOrder.indexOf(type), -1 for a type that is not listed
TypeOrder == << "service", "repository", "entity", "dto", "guard", "pipe", "interceptor" >>
RECURSIVE TypeIndexFrom(_, _)
TypeIndexFrom(type, i) ==
    IF i > Len(TypeOrder) THEN -1
    ELSE IF TypeOrder[i] = type THEN i - 1
    ELSE TypeIndexFrom(type, i + 1)

\* a label is the edge label, the node name and the circular-reference
\* suffix; every edge of these graphs has one kind, so labels compare by
\* name and then by the suffix
LabelBefore(a, b) ==
    \/ a.name < b.name
    \/ a.name = b.name /\ ~a.circular /\ b.circular

\* the comparator of children.sort is negative
SortsBefore(a, b) ==
    IF TypeIndexFrom(a.type, 1) # TypeIndexFrom(b.type, 1)
    THEN TypeIndexFrom(a.type, 1) < TypeIndexFrom(b.type, 1)
    ELSE LabelBefore(a, b)

\* children.sort(...): a stable sort
RECURSIVE InsertChild(_, _, _)
InsertChild(sorted, c, i) ==
    IF i > Len(sorted) THEN Append(sorted, c)
    ELSE IF SortsBefore(c, sorted[i])
         THEN SubSeq(sorted, 1, i - 1) \o << c >> \o SubSeq(sorted, i, Len(sorted))
         ELSE InsertChild(sorted, c, i + 1)
RECURSIVE SortChildren(_, _, _)
SortChildren(children, i, sorted) ==
    IF i > Len(children) THEN sorted
    ELSE SortChildren(children, i + 1, InsertChild(sorted, children[i], 1))

\* label = edgeLabel, name and, when circular, " (circular reference)"
TreeNode(node, circular, children) ==
    [id |-> node.id, name |-> node.name, type |-> node.type, edgeLabel |-> "",
     circular |-> circular, children |-> children]

\* getEdgeLabel(edge.type, edge.metadata) of an edge without kind and method
DefaultEdgeLabel == "->"

\* a descent that stops only at a node of the current path
StopsOnPathOnly(node, visited, maxDepth, currentDepth) == node.id \in visited

\* visited.has(node.id) || currentDepth >= maxDepth
Stops(node, visited, maxDepth, currentDepth) ==
    node.id \in visited \/ currentDepth >= maxDepth

\* CallGraphProvider.buildTreeNodeFromGraph(node, visited, maxDepth, currentDepth)
RECURSIVE BuildTreeNodeFromGraph(_, _, _, _, _)
RECURSIVE TreeChildren(_, _, _, _, _, _, _)
BuildTreeNodeFromGraph(g, node, visited, maxDepth, currentDepth) ==
    IF Stops(node, visited, maxDepth, currentDepth)
    THEN TreeNode(node, TRUE, << >>)
    ELSE TreeNode(node, FALSE,
            SortChildren(TreeChildren(g, Outgoing(g.edges, node.id), 1,
                                      visited \cup {node.id}, maxDepth, currentDepth, << >>),
                         1, << >>))
\* the loop over childEdges
TreeChildren(g, out, i, visited, maxDepth, currentDepth, children) ==
    IF i > Len(out) THEN children
    ELSE IF FindNode(g.nodes, out[i].to, 1) = << >>
         THEN TreeChildren(g, out, i + 1, visited, maxDepth, currentDepth, children)
         ELSE TreeChildren(g, out, i + 1, visited, maxDepth, currentDepth,
                 Append(children,
                        [BuildTreeNodeFromGraph(g, FindNode(g.nodes, out[i].to, 1)[1],
                                                visited, maxDepth, currentDepth + 1)
                            EXCEPT !.edgeLabel = DefaultEdgeLabel]))

\* the placeholder of an empty root list
EmptyTree == << [id |-> "empty", name |-> "No call graph data", type |-> "endpoint",
                 edgeLabel |-> "", circular |-> FALSE, children |-> << >>] >>

\* CallGraphProvider.getRootNodes(), maxDepth being buildTreeNodeFromGraph's
RECURSIVE RootTreeNodes(_, _, _, _)
RootTreeNodes(g, i, maxDepth, acc) ==
    IF i > Len(g.rootNodes) THEN acc
    ELSE IF FindNode(g.nodes, g.rootNodes[i], 1) = << >>
         THEN RootTreeNodes(g, i + 1, maxDepth, acc)
         ELSE RootTreeNodes(g, i + 1, maxDepth,
                 Append(acc, BuildTreeNodeFromGraph(g, FindNode(g.nodes, g.rootNodes[i], 1)[1],
                                                    {}, maxDepth, 0)))
GetRootNodes(g, maxDepth) ==
    IF Len(g.rootNodes) = 0 THEN EmptyTree ELSE RootTreeNodes(g, 1, maxDepth, << >>)


\* the builder before its first build, all source files on disk
IdleBuilder ==
    /\ disk = Files
    /\ loaded = LoadSourceFiles(disk)
    /\ nodeCache = {}
    /\ processedFiles = {}
    /\ expanded = << >>
    /\ pc = "idle"
    /\ endpoints = << >>
    /\ config = DefaultConfig
    /\ fault = NoFaultRec
    /\ idx = 1
    /\ nodes = << >>
    /\ edges = << >>
    /\ rootNodes = << >>
    /\ result = NoGraph
    /\ builds = 0
    /\ caller = [kind |-> "none", endpoint |-> << >>]
    /\ published = NoGraph
    /\ contrib = << >>
    /\ ref = [st |-> BState({}, {}, {}, << >>), contrib |-> << >>]
    /\ history = {}

InitLevels ==
    /\ IdleBuilder
    /\ \E es \in SeqsUpTo(ViewEdges, MaxViewEdges), roots \in SeqsUpTo(ViewIds, MaxRoots) :
          sp = [pc |-> "graph", graph |-> ViewGraph(NumViewNodes, es, roots)]

\* VisualizationHelpers.groupNodesByLevel(graph.nodes, graph.edges, graph.rootNodes)
GroupByLevel ==
    /\ sp.pc = "graph"
    /\ sp' = [pc |-> "levels", graph |-> sp.graph, levels |-> GroupNodesByLevel(sp.graph)]
    /\ UNCHANGED builderVars

NextLevels == GroupByLevel

SpecLevels == InitLevels /\ [][NextLevels]_vars

\* the edges and roots may name one id that is not a node
TreeIds == 1..(NumTreeNodes + 1)
TreeEdges == { [from |-> a, to |-> b] : a \in 1..NumTreeNodes, b \in TreeIds }

InitTree ==
    /\ IdleBuilder
    /\ \E es \in SeqsUpTo(TreeEdges, MaxTreeEdges),
          roots \in {<< >>} \cup { << r >> : r \in TreeIds } :
          sp = [pc |-> "graph", graph |-> ViewGraph(NumTreeNodes, es, roots)]

\* CallGraphProvider.getRootNodes() on callGraph = graph
ProjectTree ==
    /\ sp.pc = "graph"
    /\ \E maxDepth \in 0..MaxTreeDepth :
          sp' = [pc |-> "tree", graph |-> sp.graph, maxDepth |-> maxDepth,
                 tree |-> GetRootNodes(sp.graph, maxDepth)]
    /\ UNCHANGED builderVars

NextTree == ProjectTree

SpecTree == InitTree /\ [][NextTree]_vars

\* the shortest directed distance from the roots to every node within k edges:
\* the set of <<node, distance>> pairs
RECURSIVE Distances(_, _, _, _)
Distances(es, frontier, seen, d) ==
    IF frontier = {} THEN {}
    ELSE { << n, d >> : n \in frontier }
         \cup Distances(es, { es[e].to : e \in { x \in DOMAIN es : es[x].from \in frontier } }
                                \ (seen \cup frontier),
                        seen \cup frontier, d + 1)

\* C21: groupNodesByLevel puts every node reachable from a root into exactly
\* one level bucket, exactly once, at the level that is the length of the
\* shortest directed path from a root; roots are at level 0.
LevelsShortest ==
    sp.pc = "levels" =>
        \A pr \in Distances(sp.graph.edges, Range(sp.graph.rootNodes), {}, 0) :
            pr[1] \in ViewNodes =>
                /\ pr[2] \in DOMAIN sp.levels
                /\ \A lvl \in DOMAIN sp.levels :
                      Cardinality({ i \in DOMAIN sp.levels[lvl] : sp.levels[lvl][i].id = pr[1] })
                          = IF lvl = pr[2] THEN 1 ELSE 0


\* how many entries of a sequence of records have the id
CountId(ns, id) == Cardinality({ i \in DOMAIN ns : ns[i].id = id })

\* a tree node and all below it are as the rule of the projection says: a
\* stub exactly on a repeated ancestor or at depth maxDepth, else one child
\* per outgoing edge to a node of the graph
RECURSIVE TreeAsRuled(_, _, _, _, _)
TreeAsRuled(t, ancestors, depth, maxDepth, g) ==
    /\ depth <= maxDepth
    /\ t.circular <=> (t.id \in ancestors \/ depth >= maxDepth)
    /\ t.circular => t.children = << >>
    /\ ~t.circular =>
          /\ Len(t.children)
               = Cardinality({ e \in DOMAIN g.edges :
                                 g.edges[e].from = t.id /\ g.edges[e].to \in Ids(g.nodes) })
          /\ \A id \in Ids(g.nodes) :
                CountId(t.children, id)
                  = Cardinality({ e \in DOMAIN g.edges :
                                    g.edges[e].from = t.id /\ g.edges[e].to = id })
          /\ \A c \in DOMAIN t.children :
                TreeAsRuled(t.children[c], ancestors \cup {t.id}, depth + 1, maxDepth, g)

\* C22: in the tree projection a node is a childless stub marked as circular
\* reference exactly when its id is among its ancestors or its depth has
\* reached maxDepth; every other node has one child per outgoing edge whose
\* target is in the graph; no node is deeper than maxDepth.
TreeProjection ==
    (sp.pc = "tree" /\ sp.graph.rootNodes # << >>) =>
        \A r \in DOMAIN sp.tree :
            TreeAsRuled(sp.tree[r], {}, 0, sp.maxDepth, sp.graph)

\* a cyclic graph projected: below the root's child, a stub for the root,
\* which is on the path, and a stub for the child itself
CyclicTreeProjected ==
    /\ sp.pc = "tree"
    /\ sp.maxDepth = MaxTreeDepth
    /\ sp.graph.edges = << [from |-> 1, to |-> 2], [from |-> 2, to |-> 2],
                           [from |-> 2, to |-> 1] >>
    /\ sp.graph.rootNodes = << 1 >>
    /\ Len(sp.tree) = 1
    /\ Len(sp.tree[1].children) = 1
    /\ Len(sp.tree[1].children[1].children) = 2
    /\ \A c \in 1..2 : sp.tree[1].children[1].children[c].circular


\* ------------------------------------------------------- SequenceFlowParser
SequenceConfig(returns, database, middleware, parameterTypes) ==
    [includeReturnMessages |-> returns, includeDatabase |-> database,
     includeMiddleware |-> middleware, showParameterTypes |-> parameterTypes]
SequenceConfigs ==
    { SequenceConfig(r, d, m, t) : r \in BOOLEAN, d \in BOOLEAN, m \in BOOLEAN, t \in BOOLEAN }

\* text.replace(/[^a-zA-Z0-9]/g, "") on the pieces of text names are made of
StripSymbols(text) ==
    CASE text = "Repository<" -> "Repository"
      [] text \in {">", " ", "'", "() => ", "[]", "[]>"} -> ""
      [] text = "/a" -> "a"
      [] text = "/b" -> "b"
      [] text = "/health" -> "health"
      [] text = "/users" -> "users"
      [] OTHER -> text

\* sanitizeParticipantId(name): one text without the symbols
SanitizeParticipantId(n) == StripSymbols(n.pre) \o StripSymbols(n.stem) \o StripSymbols(n.suf)

\* nodeTypeMapping[node.type], "" when the type has no entry
ParticipantType(nodeType) ==
    CASE nodeType = "endpoint" -> "controller"
      [] nodeType = "entity" -> "database"
      [] nodeType \in {"service", "repository", "guard", "pipe", "interceptor"} -> nodeType
      [] OTHER -> ""

\* ["guard", "pipe", "interceptor"].includes(type)
IsMiddleware(type) == type \in {"guard", "pipe", "interceptor"}

Participant(id, type) == [id |-> id, type |-> type]

\* the loop of extractParticipants over callGraph.nodes
RECURSIVE NodeParticipants(_, _, _, _)
NodeParticipants(ns, i, cfg, acc) ==
    IF i > Len(ns) THEN acc
    ELSE NodeParticipants(ns, i + 1, cfg,
            IF \/ ParticipantType(ns[i].type) = ""
               \/ ~cfg.includeMiddleware /\ IsMiddleware(ParticipantType(ns[i].type))
            THEN acc
            ELSE Append(acc, Participant(SanitizeParticipantId(ns[i].name),
                                         ParticipantType(ns[i].type))))

\* the Database participant is added when a repository is among them
WithDatabase(participants, cfg) ==
    IF (\E i \in DOMAIN participants : participants[i].type = "repository")
       /\ cfg.includeDatabase
    THEN Append(participants, Participant("Database", "database"))
    ELSE participants

\* removeDuplicateParticipants: the first participant of every id
RECURSIVE RemoveDuplicateParticipants(_, _, _)
RemoveDuplicateParticipants(participants, i, seen) ==
    IF i > Len(participants) THEN << >>
    ELSE IF participants[i].id \in seen
         THEN RemoveDuplicateParticipants(participants, i + 1, seen)
         ELSE << participants[i] >>
              \o RemoveDuplicateParticipants(participants, i + 1, seen \cup {participants[i].id})

\* order.indexOf(type) of sortParticipants
ParticipantOrder == << "client", "controller", "guard", "pipe", "interceptor", "service",
                       "repository", "database", "external" >>
RECURSIVE ParticipantRank(_, _)
ParticipantRank(type, i) ==
    IF i > Len(ParticipantOrder) THEN -1
    ELSE IF ParticipantOrder[i] = type THEN i - 1
    ELSE ParticipantRank(type, i + 1)

\* participants.sort((a, b) => aIndex - bIndex): a stable sort
RECURSIVE InsertParticipant(_, _, _)
InsertParticipant(sorted, p, i) ==
    IF i > Len(sorted) THEN Append(sorted, p)
    ELSE IF ParticipantRank(p.type, 1) < ParticipantRank(sorted[i].type, 1)
         THEN SubSeq(sorted, 1, i - 1) \o << p >> \o SubSeq(sorted, i, Len(sorted))
         ELSE InsertParticipant(sorted, p, i + 1)
RECURSIVE SortParticipants(_, _, _)
SortParticipants(participants, i, sorted) ==
    IF i > Len(participants) THEN sorted
    ELSE SortParticipants(participants, i + 1, InsertParticipant(sorted, participants[i], 1))

\* SequenceFlowParser.extractParticipants(callGraph, endpoint, config)
ExtractParticipants(g, cfg) ==
    SortParticipants(
        RemoveDuplicateParticipants(
            WithDatabase(NodeParticipants(g.nodes, 1, cfg,
                                          << Participant("Client", "client") >>), cfg),
            1, {}),
        1, << >>)


Message(from, to, text, type, isDemo) ==
    [from |-> from, to |-> to, message |-> text, type |-> type, order |-> 0,
     isDemo |-> isDemo]
Activation(participant, startOrder, endOrder) ==
    [participant |-> participant, startOrder |-> startOrder, endOrder |-> endOrder]

\* messages.push({..., order: order++})
WithMessage(m, msg) ==
    [m EXCEPT !.messages = Append(@, [msg EXCEPT !.order = m.order]), !.order = @ + 1]

\* activations.push({participant, startOrder: order - 1, endOrder})
WithActivation(m, participant, endOrder) ==
    [m EXCEPT !.activations = Append(@, Activation(participant, m.order - 1, endOrder))]

\* generateMessageText(edge, fromNode, toNode); letter case is abstracted
GenerateMessageText(edge, toNode) ==
    IF edge.method # "" THEN << edge.method, "()" >>
    ELSE CASE edge.type = "calls" -> << "call", toNode.name >>
           [] edge.type = "injects" -> << "inject", toNode.name >>
           [] edge.type = "uses" -> << "use", toNode.name >>
           [] edge.type = "guards" -> << "canActivate()" >>
           [] edge.type = "pipes" -> << "transform()" >>
           [] OTHER -> << edge.type, toNode.name >>

\* repositoryNode.name.replace("Repository", "")
WithoutRepository(n) ==
    IF n.pre = "Repository<" THEN [n EXCEPT !.pre = "<"] ELSE StripSuffix(n, "Repository")

\* generateDatabaseMessage(httpMethod, repositoryNode)
GenerateDatabaseMessage(httpMethod, repositoryNode) ==
    << CASE httpMethod = "GET" -> "SELECT * FROM"
         [] httpMethod = "POST" -> "INSERT INTO"
         [] httpMethod \in {"PUT", "PATCH"} -> "UPDATE"
         [] httpMethod = "DELETE" -> "DELETE FROM"
         [] OTHER -> "QUERY",
       WithoutRepository(repositoryNode.name) >>

\* a || b on the isDemoData flags
EitherDemo(a, b) == IF a = "true" THEN a ELSE b

\* a test that lets every edge through
NeverSkipped(cfg, toNode) == FALSE

\* !config.includeMiddleware && ["guard", "pipe", "interceptor"].includes(toNode.type)
MiddlewareSkipped(cfg, toNode) == ~cfg.includeMiddleware /\ IsMiddleware(toNode.type)

\* the activation of a service or repository that receives a message
TargetActivated(toNode, m) ==
    IF toNode.type \in {"service", "repository"}
    THEN WithActivation(m, SanitizeParticipantId(toNode.name), 0)
    ELSE m

\* the database query that follows a message to a repository
DatabaseQueried(m) == WithActivation(m, "Database", m.order)
DatabaseCall(toNode, ep, cfg, m) ==
    IF toNode.type = "repository" /\ cfg.includeDatabase
    THEN DatabaseQueried(
             WithMessage(m, Message(SanitizeParticipantId(toNode.name), "Database",
                                    GenerateDatabaseMessage(ep.method, toNode), "sync", "true")))
    ELSE m

\* the body of the loop over callGraph.edges once both nodes are found
EdgeMessage(edge, fromNode, toNode, ep, cfg, m) ==
    IF MiddlewareSkipped(cfg, toNode) THEN m
    ELSE DatabaseCall(toNode, ep, cfg,
            TargetActivated(toNode,
                WithMessage(m, Message(SanitizeParticipantId(fromNode.name),
                                       SanitizeParticipantId(toNode.name),
                                       GenerateMessageText(edge, toNode), "sync",
                                       EitherDemo(fromNode.isDemoData, toNode.isDemoData)))))

\* one iteration of the loop over callGraph.edges, after the key test
EdgeFound(edge, fromNode, toNode, ep, cfg, m) ==
    IF fromNode = << >> \/ toNode = << >> THEN m
    ELSE EdgeMessage(edge, fromNode[1], toNode[1], ep, cfg, m)

\* the loop over callGraph.edges
RECURSIVE EdgeMessages(_, _, _, _, _)
EdgeMessages(g, i, ep, cfg, m) ==
    IF i > Len(g.edges) THEN m
    ELSE EdgeMessages(g, i + 1, ep, cfg,
            IF << g.edges[i].from, g.edges[i].to >> \in m.processedEdges THEN m
            ELSE EdgeFound(g.edges[i], FindNode(g.nodes, g.edges[i].from, 1),
                           FindNode(g.nodes, g.edges[i].to, 1), ep, cfg,
                           [m EXCEPT !.processedEdges =
                                       @ \cup {<< g.edges[i].from, g.edges[i].to >>}]))

\* the client request to the first endpoint node, with the controller's activation
ClientRequest(endpointNode, ep, m) ==
    IF endpointNode = << >> THEN m
    ELSE WithActivation(
             WithMessage(m, Message("Client", SanitizeParticipantId(endpointNode[1].name),
                                    << ep.method, ep.path >>, "sync", "false")),
             SanitizeParticipantId(endpointNode[1].name), 0)

\* getExpectedStatusCode(endpoint)
GetExpectedStatusCode(ep) ==
    IF ep.method = "POST" THEN 201 ELSE IF ep.method = "DELETE" THEN 204 ELSE 200

\* generateReturnMessageText(originalMessage, endpoint)
GenerateReturnMessageText(msg, ep) ==
    IF msg.to = "Database" THEN << "ResultSet" >>
    ELSE IF msg.message[1] = "SELECT * FROM" THEN << "Entity[]" >>
    ELSE IF msg.from = "Client" THEN << "HTTP", GetExpectedStatusCode(ep) >>
    ELSE << "result" >>

\* generateReturnMessages(forwardMessages, endpoint): i runs down from the end
RECURSIVE GenerateReturnMessages(_, _, _, _)
GenerateReturnMessages(forward, i, ep, returnMessages) ==
    IF i < 1 THEN returnMessages
    ELSE GenerateReturnMessages(forward, i - 1, ep,
            IF forward[i].from # "Client"
            THEN Append(returnMessages,
                        [Message(forward[i].to, forward[i].from,
                                 GenerateReturnMessageText(forward[i], ep), "return",
                                 forward[i].isDemo)
                            EXCEPT !.order = Len(forward) + Len(returnMessages) + 1])
            ELSE returnMessages)

\* Math.max over the orders of the messages that involve the participant
RECURSIVE LastOrder(_, _, _, _)
LastOrder(messages, i, participant, lastOrder) ==
    IF i > Len(messages) THEN lastOrder
    ELSE LastOrder(messages, i + 1, participant,
            IF (messages[i].from = participant \/ messages[i].to = participant)
               /\ messages[i].order > lastOrder
            THEN messages[i].order ELSE lastOrder)

\* updateActivationEndOrders(activations, messages)
UpdateActivationEndOrders(activations, messages) ==
    [a \in DOMAIN activations |->
        [activations[a] EXCEPT !.endOrder =
            LastOrder(messages, 1, activations[a].participant, activations[a].startOrder)]]

\* the end of extractMessageFlow: return messages, activation ends
FlowFinished(forward, activations, ep, cfg) ==
    [forward |-> forward,
     messages |-> IF cfg.includeReturnMessages
                  THEN forward \o GenerateReturnMessages(forward, Len(forward), ep, << >>)
                  ELSE forward,
     activations |->
         UpdateActivationEndOrders(activations,
             IF cfg.includeReturnMessages
             THEN forward \o GenerateReturnMessages(forward, Len(forward), ep, << >>)
             ELSE forward)]
FlowOf(m, ep, cfg) == FlowFinished(m.messages, m.activations, ep, cfg)

\* SequenceFlowParser.extractMessageFlow(callGraph, endpoint, config); the
\* forward list is kept beside the result
ExtractMessageFlow(g, ep, cfg) ==
    FlowOf(EdgeMessages(g, 1, ep, cfg,
               ClientRequest(FindNodeOfType(g.nodes, "endpoint", 1), ep,
                             [messages |-> << >>, activations |-> << >>, order |-> 1,
                              processedEdges |-> {}])),
           ep, cfg)

\* notes.push(...); order += 0.1, orders counted in tenths
WithNote(notes, participant, content) ==
    Append(notes, [participant |-> participant, content |-> content,
                   order |-> 5 + Len(notes)])
GuardNote(notes, participant, ep, cfg) ==
    IF Len(ep.guards) > 0 /\ cfg.includeMiddleware
    THEN WithNote(notes, participant, << "@UseGuards", ep.guards >>) ELSE notes
PipeNote(notes, participant, ep, cfg) ==
    IF Len(ep.pipes) > 0 /\ cfg.includeMiddleware
    THEN WithNote(notes, participant, << "@UsePipes", ep.pipes >>) ELSE notes
DtoNote(notes, participant, ep, cfg) ==
    IF ep.inputDto # NoName /\ cfg.showParameterTypes
    THEN WithNote(notes, participant, << "@Body()", ep.inputDto >>) ELSE notes

\* SequenceFlowParser.extractNotes(endpoint, config)
ExtractNotes(ep, cfg) ==
    DtoNote(PipeNote(GuardNote(<< >>, SanitizeParticipantId(N(ep.method, " ", ep.path)), ep, cfg),
                     SanitizeParticipantId(N(ep.method, " ", ep.path)), ep, cfg),
            SanitizeParticipantId(N(ep.method, " ", ep.path)), ep, cfg)

\* the diagram of generateSequenceFromEndpoint, the forward list beside it
Diagram(participants, flow, notes) ==
    [participants |-> participants, forward |-> flow.forward, messages |-> flow.messages,
     notes |-> notes, activations |-> flow.activations]

\* SequenceHelpers.validateSequenceDiagram(sequence): the kinds of its errors
ValidateSequenceDiagram(d) ==
    { "unknown participant" :
        x \in { i \in DOMAIN d.messages :
                  \/ d.messages[i].from \notin { d.participants[p].id : p \in DOMAIN d.participants }
                  \/ d.messages[i].to \notin { d.participants[p].id : p \in DOMAIN d.participants } } }
    \cup { "unknown note participant" :
        x \in { i \in DOMAIN d.notes :
                  d.notes[i].participant
                      \notin { d.participants[p].id : p \in DOMAIN d.participants } } }
    \cup { "duplicate participants" :
        x \in { 1 : y \in { p \in DOMAIN d.participants :
                  Len(d.participants)
                      # Cardinality({ d.participants[q].id : q \in DOMAIN d.participants }) } } }


\* buildEndpointCallGraph(endpoint): buildCallGraph([endpoint]) with the
\* defaults, run from the cleared caches to its return
Built(it) ==
    [st |-> it.st, nodes |-> << it.root >> \o it.nodes, edges |-> it.edges,
     graph |-> Graph(RemoveDuplicateNodes(<< it.root >> \o it.nodes),
                     RemoveDuplicateEdges(it.edges), << it.root.id >>)]
BuildEndpointCallGraph(ld, dsk, ep) ==
    Built(EndpointIteration(BState(ld, {}, {}, << >>), dsk, ep, DefaultConfig, NoFault))

\* SequenceFlowParser.generateSequenceFromEndpoint(endpoint, config) on the
\* graph that the build returned
SequenceOf(g, ep, cfg) ==
    Diagram(ExtractParticipants(g, cfg), ExtractMessageFlow(g, ep, cfg), ExtractNotes(ep, cfg))

\* generateSequenceFromEndpoint(endpoint, config), the build included
GenerateSequenceFromEndpoint(ep, cfg) ==
    /\ Fresh
    /\ \E built \in {BuildEndpointCallGraph(loaded, disk, ep)} :
          /\ loaded' = built.st.loaded
          /\ processedFiles' = built.st.processed
          /\ nodeCache' = built.st.cache
          /\ expanded' = built.st.expanded
          /\ nodes' = built.nodes
          /\ edges' = built.edges
          /\ rootNodes' = built.graph.rootNodes
          /\ result' = built.graph
          /\ sp' = [pc |-> "diagram", endpoint |-> ep, config |-> cfg,
                    graph |-> built.graph, diagram |-> SequenceOf(built.graph, ep, cfg)]
    /\ endpoints' = << ep >>
    /\ config' = DefaultConfig
    /\ fault' = NoFaultRec
    /\ idx' = 2
    /\ builds' = builds + 1
    /\ caller' = [kind |-> "sequence", endpoint |-> << ep >>]
    /\ UNCHANGED << disk, pc, published, contrib, ref, history >>

NextSequence ==
    \E ep \in EndpointUniverse, cfg \in SequenceConfigs : GenerateSequenceFromEndpoint(ep, cfg)

SpecSequence == Init /\ [][NextSequence]_vars

\* the forward messages of the diagram, in order
Forward == sp.diagram.forward
\* the return messages of the diagram, in order
Returns == SubSeq(sp.diagram.messages, Len(sp.diagram.forward) + 1, Len(sp.diagram.messages))

\* C23: with includeReturnMessages, every forward message, the client's
\* request included, has exactly one return message with from and to
\* swapped, and the return messages come in the reverse of the forward order.
ReturnsMirrorForward ==
    (sp.pc = "diagram" /\ sp.config.includeReturnMessages) =>
        /\ Len(Returns) = Len(Forward)
        /\ \A i \in DOMAIN Returns :
              /\ Returns[i].type = "return"
              /\ Returns[i].from = Forward[Len(Forward) + 1 - i].to
              /\ Returns[i].to = Forward[Len(Forward) + 1 - i].from


\* the edges of the graph of the diagram whose two nodes are in the graph
JoiningEdges ==
    SelectSeq(sp.graph.edges,
              LAMBDA e : e.from \in Ids(sp.graph.nodes) /\ e.to \in Ids(sp.graph.nodes))
\* the forward messages that are neither the client's request nor a query
EdgeForward == SelectSeq(Forward, LAMBDA m : m.from # "Client" /\ m.to # "Database")
\* the participant ids of the repository nodes
RepositoryIds ==
    { SanitizeParticipantId(sp.graph.nodes[n].name) :
        n \in { k \in DOMAIN sp.graph.nodes : sp.graph.nodes[k].type = "repository" } }
NameOf(id) == (CHOOSE n \in Range(sp.graph.nodes) : n.id = id).name

\* C24: the forward list has exactly one message per edge whose two nodes
\* exist, in edge order, also for two edges of different kinds between one
\* pair of nodes, and a Database query directly after each message to a
\* repository when includeDatabase is set and none otherwise (middleware
\* included, so that no edge is left out for its kind).
ForwardPerEdge ==
    (sp.pc = "diagram" /\ sp.config.includeMiddleware) =>
        /\ Len(EdgeForward) = Len(JoiningEdges)
        /\ \A i \in DOMAIN EdgeForward :
              i \in DOMAIN JoiningEdges =>
                  /\ EdgeForward[i].from = SanitizeParticipantId(NameOf(JoiningEdges[i].from))
                  /\ EdgeForward[i].to = SanitizeParticipantId(NameOf(JoiningEdges[i].to))
        /\ \A i \in DOMAIN Forward :
              /\ Forward[i].to = "Database" =>
                    /\ sp.config.includeDatabase
                    /\ i > 1
                    /\ Forward[i - 1].to \in RepositoryIds
                    /\ Forward[i].from = Forward[i - 1].to
              /\ (Forward[i].to \in RepositoryIds /\ sp.config.includeDatabase) =>
                    /\ i < Len(Forward)
                    /\ Forward[i + 1].to = "Database"


\* the orders of the messages that have the participant as sender or receiver
OrdersOf(participant) ==
    { sp.diagram.messages[i].order :
        i \in { k \in DOMAIN sp.diagram.messages :
                  \/ sp.diagram.messages[k].from = participant
                  \/ sp.diagram.messages[k].to = participant } }

\* C25: every participant has at most one activation span, and the span
\* runs from the order of the first message that involves the participant
\* to the order of the last one, so startOrder <= endOrder.
ActivationSpans ==
    sp.pc = "diagram" =>
        /\ \A a, b \in DOMAIN sp.diagram.activations :
              sp.diagram.activations[a].participant = sp.diagram.activations[b].participant
                  => a = b
        /\ \A a \in DOMAIN sp.diagram.activations :
              /\ OrdersOf(sp.diagram.activations[a].participant) # {}
              /\ \A o \in OrdersOf(sp.diagram.activations[a].participant) :
                    /\ sp.diagram.activations[a].startOrder <= o
                    /\ o <= sp.diagram.activations[a].endOrder
              /\ sp.diagram.activations[a].startOrder
                    \in OrdersOf(sp.diagram.activations[a].participant)
              /\ sp.diagram.activations[a].endOrder
                    \in OrdersOf(sp.diagram.activations[a].participant)
              /\ sp.diagram.activations[a].startOrder <= sp.diagram.activations[a].endOrder


ParticipantIds == { sp.diagram.participants[p].id : p \in DOMAIN sp.diagram.participants }

\* C30: every diagram of generateSequenceFromEndpoint is well formed:
\* participant ids are pairwise distinct, every message, note and
\* activation names a participant of the diagram, validateSequenceDiagram
\* reports no error, and the message orders are 1..n without repetition.
WellFormedDiagram ==
    sp.pc = "diagram" =>
        /\ \A p, q \in DOMAIN sp.diagram.participants :
              sp.diagram.participants[p].id = sp.diagram.participants[q].id => p = q
        /\ \A i \in DOMAIN sp.diagram.messages :
              /\ sp.diagram.messages[i].from \in ParticipantIds
              /\ sp.diagram.messages[i].to \in ParticipantIds
        /\ \A i \in DOMAIN sp.diagram.notes : sp.diagram.notes[i].participant \in ParticipantIds
        /\ \A i \in DOMAIN sp.diagram.activations :
              sp.diagram.activations[i].participant \in ParticipantIds
        /\ ValidateSequenceDiagram(sp.diagram) = {}
        /\ { sp.diagram.messages[i].order : i \in DOMAIN sp.diagram.messages }
              = 1..Len(sp.diagram.messages)

\* a diagram without middleware of an endpoint with a guard and a repository:
\* guard edges are left out, the database is queried, a note would name the
\* controller, returns are numbered after the forward messages
GuardedDiagramGenerated ==
    /\ sp.pc = "diagram"
    /\ sp.config = SequenceConfig(TRUE, TRUE, FALSE, TRUE)
    /\ \E n \in DOMAIN sp.graph.nodes : sp.graph.nodes[n].type = "guard"
    /\ \E i \in DOMAIN sp.diagram.messages : sp.diagram.messages[i].type = "return"
    /\ Len(sp.diagram.messages) >= 4


\* ------------------------------------------ source-file watcher and refresh
\* sp records the number of builds returned when the last change event that
\* no reload has followed fired, -1 when there is none
InitWatch ==
    /\ IdleBuilder
    /\ sp = [pc |-> "watching", changedAt |-> -1]

\* showCallGraphForEndpoint / generateCallGraph: a build for one endpoint
WatchedBuild ==
    /\ builds < MaxBuilds
    /\ \E ep \in EndpointUniverse : BuildCallGraph(<< ep >>, DefaultConfig, NoFaultRec)

\* tsWatcher.onDidCreate / onDidDelete -> refreshAll: a file of the tree is
\* created or deleted; callGraphProvider.refresh() fires the tree event and
\* leaves the builder as it is
FileChanged ==
    /\ pc = "idle"
    /\ \E f \in Removable : disk' = IF f \in disk THEN disk \ {f} ELSE disk \cup {f}
    /\ sp' = [pc |-> "watching", changedAt |-> builds]
    /\ UNCHANGED << loaded, nodeCache, processedFiles, expanded, pc, endpoints, config, fault,
                    idx, nodes, edges, rootNodes, result, builds, caller, published,
                    contrib, ref, history >>

\* the command nestjsDashboard.refreshCallGraph: CallGraphParser.refresh()
RefreshCallGraph ==
    /\ pc = "idle"
    /\ nodeCache' = {}
    /\ processedFiles' = {}
    /\ loaded' = LoadSourceFiles(disk)
    /\ sp' = [pc |-> "watching", changedAt |-> -1]
    /\ UNCHANGED << disk, expanded, pc, endpoints, config, fault, idx, nodes, edges,
                    rootNodes, result, builds, caller, published, contrib, ref, history >>

NextWatch == WatchedBuild \/ ProcessEndpoint \/ ReturnGraph \/ FileChanged \/ RefreshCallGraph

SpecWatch == InitWatch /\ [][NextWatch]_vars

\* C26: after a source-file change event the caches are cleared and the
\* source files reloaded before the next build: a build that starts after
\* the event works on the files of the changed tree, and the graph it returns
\* is the graph a builder constructed on the changed tree returns.
BuiltFromChangedSources ==
    (sp.pc = "watching" /\ sp.changedAt >= 0) =>
        /\ pc = "building" => (loaded \subseteq disk /\ LoadSourceFiles(disk) \subseteq loaded)
        /\ (pc = "idle" /\ builds > sp.changedAt) =>
              result = BuildEndpointCallGraph(LoadSourceFiles(disk), disk, endpoints[1]).graph


\* ------------------------------ enhanceCallGraphWithDemoData on small graphs
UserDto == N("", "User", "Dto")

\* descriptors of the handler UsersController.list with the HTTP methods,
\* type names and protection an endpoint descriptor can carry
EnrichEndpoints ==
    { Ep(method, "/users", UsersController, "list", 8, 12, inputDto, outputDto, << >>, isPublic) :
        method \in {"GET", "POST"},
        inputDto \in {NoName, CreateUserDto, UserDto},
        outputDto \in {NoName, UserArray, UserDto},
        isPublic \in BOOLEAN }

\* the graphs of at most three nodes that a build for the descriptor can
\* return: the endpoint node alone, with its service, with service and
\* repository
ServiceOf(ep) == CreateServiceNode({}, Dep(UsersService, "service", NoName, "usersService"), 9,
                                   "service").node
RepositoryFor(ep) == CreateRepositoryNode({}, Dep(RepositoryOf(User), "repository", NoName,
                                                  "usersRepository"), NoFile).node
RawGraphs(ep) ==
    { Graph(<< CreateEndpointNode({}, ep).node >>, << >>, << EndpointId(ep) >>),
      Graph(<< CreateEndpointNode({}, ep).node, ServiceOf(ep) >>,
            << Edge(EndpointId(ep), ServiceOf(ep).id, "injects", "", "unset") >>,
            << EndpointId(ep) >>),
      Graph(<< CreateEndpointNode({}, ep).node, ServiceOf(ep), RepositoryFor(ep) >>,
            << Edge(EndpointId(ep), ServiceOf(ep).id, "injects", "", "unset"),
               Edge(ServiceOf(ep).id, RepositoryFor(ep).id, "injects", "", "unset") >>,
            << EndpointId(ep) >>) }

InitEnrich ==
    /\ IdleBuilder
    /\ \E ep \in EnrichEndpoints : \E g \in RawGraphs(ep) :
          sp = [pc |-> "raw", endpoint |-> ep, raw |-> g]

\* enhanceCallGraphWithDemoData(callGraph, endpoint)
Enhance ==
    /\ sp.pc = "raw"
    /\ sp' = [pc |-> "enhanced", endpoint |-> sp.endpoint, raw |-> sp.raw,
              enhanced |-> EnhanceCallGraphWithDemoData(sp.raw, << sp.endpoint >>)]
    /\ UNCHANGED builderVars

NextEnrich == Enhance

SpecEnrich == InitEnrich /\ [][NextEnrich]_vars

\* C27: the graph that enhanceCallGraphWithDemoData returns has no two nodes
\* with one id and no two edges with one (from, to, kind), also for an
\* endpoint whose input type name is its output type name.
EnrichedWithoutDuplicates ==
    sp.pc = "enhanced" =>
        /\ \A i, j \in DOMAIN sp.enhanced.nodes :
              sp.enhanced.nodes[i].id = sp.enhanced.nodes[j].id => i = j
        /\ \A i, j \in DOMAIN sp.enhanced.edges :
              Triple(sp.enhanced.edges[i]) = Triple(sp.enhanced.edges[j]) => i = j

\* C28: demo enrichment only adds: every node id and every (from, to, kind)
\* edge of the raw graph is in the enriched graph.
EnrichmentOnlyAdds ==
    sp.pc = "enhanced" =>
        /\ Ids(sp.raw.nodes) \subseteq Ids(sp.enhanced.nodes)
        /\ Triples(sp.raw.edges) \subseteq Triples(sp.enhanced.edges)


\* ------------------------------------------- handlers with several routes
\* parseEndpoints pushes one descriptor per HTTP-method decorator of a
\* method: AController.h1 carrying @Get() and @Put() gives two descriptors
\* with one controller, handler, file and line
PutA == Ep("PUT", "/a", AController, "h1", 1, 10, NoName, NoName, << AuthGuard >>, FALSE)
DecoratedEndpoints == EndpointUniverse \cup {PutA}

\* buildCallGraph(endpoints) on the descriptors parseEndpoints can push
BuildParsed ==
    /\ Fresh
    /\ \E eps \in SeqsUpTo(DecoratedEndpoints, MaxEndpoints) :
          BuildCallGraph(eps, DefaultConfig, NoFaultRec)

NextRoots == BuildParsed \/ ProcessEndpoint \/ ReturnGraph

SpecRoots == Init /\ [][NextRoots]_vars

\* C29: the roots of the built graph contain no id twice, there are as many
\* roots as endpoint nodes in the graph, and two descriptors that differ in
\* HTTP method or route have distinct endpoint nodes.
RootsAreEndpointNodes ==
    Returned =>
        /\ \A i, j \in DOMAIN result.rootNodes :
              result.rootNodes[i] = result.rootNodes[j] => i = j
        /\ Len(result.rootNodes)
              = Cardinality({ n \in DOMAIN result.nodes : result.nodes[n].type = "endpoint" })
        /\ \A i, j \in DOMAIN endpoints :
              (endpoints[i].method # endpoints[j].method \/ endpoints[i].path # endpoints[j].path)
                  => result.rootNodes[i] # result.rootNodes[j]
====
